---- MODULE Spec2Model ----
(***************************************************************************)
(* A model of pytiled_parser: the tile-grid codec, the GID registry        *)
(* lookup, the TiledObject parser and the map assembler's                  *)
(* template-injection pass.                                                *)
(*                                                                         *)
(* Python values are modelled as follows.                                  *)
(*   - bytes and List[int] are sequences of naturals;                      *)
(*   - a str holding base64 text is a sequence of sextets 0..63, with      *)
(*     B64Pad standing for '=';                                            *)
(*   - the outcome of a call is a record [err, val]: err = "none" when the *)
(*     call returned val, and the name of the exception raised otherwise.  *)
(***************************************************************************)
EXTENDS Integers, Sequences, FiniteSets, TLC

VARIABLES
    \* ---- tile-grid codec (parsers/json/layer.py, xml_parser.py)
    cpc,           \* position of the codec scenario
    grid,          \* the grid handed to _encode_tile_layer_data
    compression,   \* the compression name of the layer record
    zstd,          \* TRUE when the optional zstd module was imported
    layer_width,   \* the row width handed to the decoders
    flat,          \* a flat tile list as the editor writes it (JSON "data" array)
    encoded,       \* outcome of _encode_tile_layer_data(grid, compression)
    decoded,       \* outcome of _decode_tile_layer_data(encoded, compression, layer_width)
    folded,        \* outcome of _convert_raw_tile_layer_data(flat, layer_width)
    xml_decoded,   \* outcome of _decode_base64_data(wire text of flat, layer_width, compression)
    json_decoded,  \* outcome of _decode_tile_layer_data(wire text of flat, compression, layer_width)
    \* ---- GID lookup (utilities.py)
    gpc,           \* position of the lookup scenario
    gid,           \* the global tile ID looked up
    tile_sets,     \* the TileSetDict: firstgid -> TileSet
    tile,          \* outcome of get_tile_by_gid(gid, tile_sets)
    \* ---- TiledObject parser (parsers/json, parsers/tmx, tiled_object.py)
    opc,           \* position of the object scenario
    adapter,       \* "json" (parsers/json), "tmx" (parsers/tmx) or "cast" (tiled_object.py)
    raw_object,    \* the caller's raw record: a dict, or an XML element
    parent_dir,    \* TRUE when the caller passed a parent directory
    template_file, \* content of the template file the record names (with its tileset file)
    files_read,    \* the files opened by the call, in order
    tiled_object,  \* outcome of parse / cast
    \* ---- map assembler (tiled_map.py, parsers/tmx/tiled_map.py)
    mpc,           \* position in the assembler: start, layers, inject, done, failed
    map_format,    \* "json" (tiled_map.parse_map) or "tmx" (parsers/tmx/tiled_map.parse)
    raw_map,       \* the map document: its declared tilesets and its layer records
    tilesets,      \* map_.tilesets: an insertion-ordered dict firstgid -> Tileset
    layers,        \* map_.layers
    parsed_layers, \* map_.layers as the layer parser returned them, before the pass
    cursor,        \* number of tiled objects the injection pass has visited
    map_error,     \* the exception that ended the assembler, "none" if none
    \* ---- layer parser and serializer (parsers/json/layer.py, xml_parser.py)
    lpc,           \* position: "raw" (a record to parse), "value" (a Layer to
                   \* serialize), "serialized", "done"; "xml" (a group element
                   \* to parse), "xml_done"; "cast_done"
    layer_record,  \* the layer record handed to parse
    layer_value,   \* the Layer handed to serialize, <<>> when a record is parsed
    zstd_installed, \* TRUE when the zstd module could be imported
    serialized,    \* outcome of serialize
    parsed_layer,  \* outcome of parse
    \* ---- colour text (util.py, utilities.py)
    kpc,           \* position: "text" (a colour text to parse), "done"
    color_text,    \* the colour text, a sequence of characters
    color_module,  \* the module whose parse_color ran, "none" before
    parsed_color,  \* outcome of parse_color
    \* ---- external tilesets (xml_parser.py, tiled_map.py, parsers/tmx/tiled_map.py)
    xpc,           \* position: "load" (references to resolve), "idle"
    loader,        \* the module that resolves the references
    tileset_refs,  \* the external tileset references of the process, in order
    ref_cursor,    \* index of the next reference to resolve
    lru,           \* the cache of _parse_external_tile_set, least recent first
    file_opens,    \* the tileset files opened so far, in order
    loaded_sets,   \* the tilesets handed to the callers, in order
    \* ---- CSV tile data (xml_parser.py)
    vpc,           \* position: "text" (a CSV text to decode), "done"
    csv_rows,      \* the data lines the text was written from, as rows of IDs
    csv_text,      \* the text of the <data encoding="csv"> element
    csv_grid,      \* outcome of _decode_csv_data
    \* ---- chunked tile layers (xml_parser.py, parsers/json/layer.py)
    hpc,           \* position: "layer" (a chunked layer to parse), "xml_done", "json_done"
    chunked,       \* the layer: its width, encoding, compression and chunks
    xml_chunks,    \* outcome of _parse_data on the layer's <data> element
    json_chunks,   \* outcome of the chunk loop of _parse_tile_layer on its record
    \* ---- properties (xml_parser.py, parsers/json/properties.py)
    ppc,           \* position: "triples", "props", "xml_done", "json_done", "serialized"
    triples,       \* the (name, type, value) triples of a properties list
    xml_props,     \* outcome of _parse_properties_element on the triples' element
    json_props,    \* outcome of properties.parse on the triples' records
    props,         \* a Properties mapping to serialize
    raw_props      \* outcome of properties.serialize

codec_vars == <<cpc, grid, compression, zstd, layer_width, flat, encoded,
                decoded, folded, xml_decoded, json_decoded>>

gid_vars == <<gpc, gid, tile_sets, tile>>

obj_vars == <<opc, adapter, raw_object, parent_dir, template_file, files_read,
              tiled_object>>

map_vars == <<mpc, map_format, raw_map, tilesets, layers, parsed_layers, cursor,
              map_error>>

layer_vars == <<lpc, layer_record, layer_value, zstd_installed, serialized, parsed_layer>>

color_vars == <<kpc, color_text, color_module, parsed_color>>

ext_vars == <<xpc, loader, tileset_refs, ref_cursor, lru, file_opens, loaded_sets>>

csv_vars == <<vpc, csv_rows, csv_text, csv_grid>>

chunk_vars == <<hpc, chunked, xml_chunks, json_chunks>>

props_vars == <<ppc, triples, xml_props, json_props, props, raw_props>>

vars == <<codec_vars, gid_vars, obj_vars, map_vars, layer_vars, color_vars, ext_vars, csv_vars, chunk_vars, props_vars>>

\* What the actions of one component leave alone.
not_codec_vars == <<gid_vars, obj_vars, map_vars, layer_vars, color_vars, ext_vars, csv_vars, chunk_vars, props_vars>>
not_gid_vars == <<codec_vars, obj_vars, map_vars, layer_vars, color_vars, ext_vars, csv_vars, chunk_vars, props_vars>>
not_obj_vars == <<codec_vars, gid_vars, map_vars, layer_vars, color_vars, ext_vars, csv_vars, chunk_vars, props_vars>>
not_map_vars == <<codec_vars, gid_vars, obj_vars, layer_vars, color_vars, ext_vars, csv_vars, chunk_vars, props_vars>>
not_layer_vars == <<codec_vars, gid_vars, obj_vars, map_vars, color_vars, ext_vars, csv_vars, chunk_vars, props_vars>>
not_color_vars == <<codec_vars, gid_vars, obj_vars, map_vars, layer_vars, ext_vars, csv_vars, chunk_vars, props_vars>>
not_ext_vars == <<codec_vars, gid_vars, obj_vars, map_vars, layer_vars, color_vars, csv_vars, chunk_vars, props_vars>>
not_csv_vars == <<codec_vars, gid_vars, obj_vars, map_vars, layer_vars, color_vars, ext_vars, chunk_vars, props_vars>>
not_chunk_vars == <<codec_vars, gid_vars, obj_vars, map_vars, layer_vars, color_vars, ext_vars, csv_vars, props_vars>>
not_props_vars == <<codec_vars, gid_vars, obj_vars, map_vars, layer_vars, color_vars, ext_vars, csv_vars, chunk_vars>>

(***************************************************************************)
(* Bounds of the model.                                                    *)
(***************************************************************************)
MaxRows == 2
MaxCols == 2
MaxFlat == 4
MaxGid == 70

\* Tile IDs drawn for grids: one-byte IDs and one ID with four non-zero bytes.
TileIds == {1, 7, 16908588}

None == [err |-> "none", val |-> <<>>]

Ok(v) == [err |-> "none", val |-> v]

Raise(e) == [err |-> e, val |-> <<>>]

(***************************************************************************)
(* Library codecs used by the repository: base64 and the compressors.      *)
(***************************************************************************)
B64Pad == 64

RECURSIVE b64encode(_)
\* base64.b64encode: three bytes become four sextets, the tail is padded.
b64encode(b) ==
    IF Len(b) = 0 THEN <<>>
    ELSE IF Len(b) = 1 THEN
        <<b[1] \div 4, (b[1] % 4) * 16, B64Pad, B64Pad>>
    ELSE IF Len(b) = 2 THEN
        <<b[1] \div 4, (b[1] % 4) * 16 + (b[2] \div 16), (b[2] % 16) * 4, B64Pad>>
    ELSE
        <<b[1] \div 4, (b[1] % 4) * 16 + (b[2] \div 16),
          (b[2] % 16) * 4 + (b[3] \div 64), b[3] % 64>>
        \o b64encode(SubSeq(b, 4, Len(b)))

RECURSIVE b64decode(_)
\* base64.b64decode: four sextets become three bytes, padding shortens the tail.
b64decode(s) ==
    IF Len(s) < 4 THEN <<>>
    ELSE
        LET b1 == s[1] * 4 + (s[2] \div 16)
            b2 == (s[2] % 16) * 16 + (s[3] \div 4)
            b3 == (s[3] % 4) * 64 + s[4]
        IN  IF s[3] = B64Pad THEN <<b1>>
            ELSE IF s[4] = B64Pad THEN <<b1, b2>>
            ELSE <<b1, b2, b3>> \o b64decode(SubSeq(s, 5, Len(s)))

RECURSIVE SumSeq(_)
SumSeq(b) == IF Len(b) = 0 THEN 0 ELSE b[1] + SumSeq(Tail(b))

\* First byte of the frame each compressor writes (zlib 0x78, gzip 0x1f, zstd 0x28).
Magic(kind) ==
    IF kind = "zlib" THEN 120 ELSE IF kind = "gzip" THEN 31 ELSE 40

\* zlib.compress / gzip.compress / zstd.compress: a lossless frame around the
\* payload, opened by the format's magic byte and closed by a checksum.
compress(kind, b) == <<Magic(kind)>> \o b \o <<SumSeq(b) % 256>>

\* zlib.decompress / gzip.decompress / zstd.decompress: the payload of a
\* well-formed frame, an error for anything else.
decompress(kind, b) ==
    IF /\ Len(b) >= 2
       /\ b[1] = Magic(kind)
       /\ b[Len(b)] = SumSeq(SubSeq(b, 2, Len(b) - 1)) % 256
    THEN Ok(SubSeq(b, 2, Len(b) - 1))
    ELSE Raise("CodecError")

(***************************************************************************)
(* parsers/json/layer.py                                                   *)
(***************************************************************************)
RECURSIVE _convert_tile_layer_data_to_raw(_)
\* [i for sub in data for i in sub]
_convert_tile_layer_data_to_raw(data) ==
    IF Len(data) = 0 THEN <<>>
    ELSE data[1] \o _convert_tile_layer_data_to_raw(Tail(data))

RECURSIVE ConvertLoop(_, _, _, _)
\* The for loop of _convert_raw_tile_layer_data: column_count items have been
\* placed into tile_grid, whose last row is the one being filled.
ConvertLoop(data, width, column_count, tile_grid) ==
    IF column_count = Len(data) THEN tile_grid
    ELSE
        LET cc == column_count + 1
            row_count == Len(tile_grid)
            appended == [tile_grid EXCEPT ![row_count] = Append(@, data[cc])]
        IN  IF cc % width = 0 /\ cc < Len(data)
            THEN ConvertLoop(data, width, cc, Append(appended, <<>>))
            ELSE ConvertLoop(data, width, cc, appended)

_convert_raw_tile_layer_data(data, width) ==
    Ok(ConvertLoop(data, width, 0, << <<>> >>))

RECURSIVE BytesToInts(_)
\* The byte loop with the shift (3 - byte_count) * 8: the first byte of every
\* four is the most significant.
BytesToIntsBigEndian(b) ==
    IF Len(b) < 4 THEN <<>>
    ELSE <<b[1] * 16777216 + b[2] * 65536 + b[3] * 256 + b[4]>>
         \o BytesToInts(SubSeq(b, 5, Len(b)))

\* The byte loop shared by both decoders: every four bytes give one unsigned
\* little-endian integer; a tail of fewer than four bytes gives nothing.
BytesToInts(b) ==
    IF Len(b) < 4 THEN <<>>
    ELSE <<b[1] + b[2] * 256 + b[3] * 65536 + b[4] * 16777216>>
         \o BytesToInts(SubSeq(b, 5, Len(b)))

\* The chain without the test on the zstd module: without the module, zstd
\* data passes through like uncompressed data.
JsonUnzipUnguarded(unencoded_data, comp, have_zstd) ==
    IF comp = "zlib" THEN decompress("zlib", unencoded_data)
    ELSE IF comp = "gzip" THEN decompress("gzip", unencoded_data)
    ELSE IF comp = "zstd" /\ have_zstd THEN decompress("zstd", unencoded_data)
    ELSE Ok(unencoded_data)

\* The if/elif chain of _decode_tile_layer_data that undoes the compression.
JsonUnzip(unencoded_data, comp, have_zstd) ==
    IF comp = "zlib" THEN decompress("zlib", unencoded_data)
    ELSE IF comp = "gzip" THEN decompress("gzip", unencoded_data)
    ELSE IF comp = "zstd" /\ ~have_zstd THEN Raise("ValueError")
    ELSE IF comp = "zstd" THEN decompress("zstd", unencoded_data)
    ELSE Ok(unencoded_data)

_decode_tile_layer_data(data, comp, width, have_zstd) ==
    LET unzipped_data == JsonUnzip(b64decode(data), comp, have_zstd)
    IN  IF unzipped_data.err # "none" THEN unzipped_data
        ELSE _convert_raw_tile_layer_data(BytesToInts(unzipped_data.val), width)

\* bytes(list) accepts only integers in range(0, 256).
BytesOf(ints) ==
    IF \E i \in 1..Len(ints) : ints[i] < 0 \/ ints[i] > 255
    THEN Raise("ValueError")
    ELSE Ok(ints)

_encode_tile_layer_data(data, comp, have_zstd) ==
    LET data_bytes == BytesOf(_convert_tile_layer_data_to_raw(data))
    IN  IF data_bytes.err # "none" THEN data_bytes
        ELSE IF comp = "zlib" THEN Ok(b64encode(compress("zlib", data_bytes.val)))
        ELSE IF comp = "gzip" THEN Ok(b64encode(compress("gzip", data_bytes.val)))
        ELSE IF comp = "zstd" /\ ~have_zstd THEN Raise("ValueError")
        ELSE IF comp = "zstd" THEN Ok(b64encode(compress("zstd", data_bytes.val)))
        ELSE Ok(b64encode(data_bytes.val))

(***************************************************************************)
(* xml_parser.py                                                           *)
(***************************************************************************)
RECURSIVE XmlFoldLoop(_, _, _, _)
\* The loop of _decode_base64_data over the completed integers: int_count of
\* them have been placed, a new empty row is opened after every full row.
XmlFoldLoop(ints, width, int_count, tile_grid) ==
    IF int_count = Len(ints) THEN tile_grid
    ELSE
        LET ic == int_count + 1
            row_count == Len(tile_grid)
            appended == [tile_grid EXCEPT ![row_count] = Append(@, ints[ic])]
        IN  IF ic % width = 0
            THEN XmlFoldLoop(ints, width, ic, Append(appended, <<>>))
            ELSE XmlFoldLoop(ints, width, ic, appended)

\* list.pop(): the list without its last element.
Pop(s) == SubSeq(s, 1, Len(s) - 1)

_decode_base64_data(data_text, width, comp) ==
    LET unencoded_data == b64decode(data_text)
        unzipped_data ==
            IF comp = "zlib" THEN decompress("zlib", unencoded_data)
            ELSE IF comp = "gzip" THEN decompress("gzip", unencoded_data)
            ELSE IF comp = "none" THEN Ok(unencoded_data)
            ELSE Raise("ValueError")
    IN  IF unzipped_data.err # "none" THEN unzipped_data
        ELSE Ok(Pop(XmlFoldLoop(BytesToInts(unzipped_data.val), width, 0, << <<>> >>)))

(***************************************************************************)
(* The codec scenarios: a grid is encoded and the text decoded again; a    *)
(* flat tile list, as an array or as the text the editor writes for it, is *)
(* folded into rows by each decoder.                                       *)
(***************************************************************************)
Compressions == {"none", "zlib", "gzip", "zstd", "lzma"}

RECURSIVE LittleEndian(_)
\* The bytes the map editor writes for a tile list: four per ID, low byte first.
LittleEndian(ints) ==
    IF Len(ints) = 0 THEN <<>>
    ELSE <<ints[1] % 256, (ints[1] \div 256) % 256,
           (ints[1] \div 65536) % 256, ints[1] \div 16777216>>
         \o LittleEndian(Tail(ints))

\* The text of a <data encoding="base64"> element or of a JSON "data" string.
WireText(ints, comp) ==
    IF comp = "none" THEN b64encode(LittleEndian(ints))
    ELSE b64encode(compress(comp, LittleEndian(ints)))

Rows(w) == [1..w -> TileIds]

Grids == UNION {[1..h -> Rows(w)] : h \in 1..MaxRows, w \in 1..MaxCols}

Flats == UNION {[1..n -> TileIds] : n \in 0..MaxFlat}

CodecStart ==
    /\ cpc = "start"
    /\ compression \in Compressions
    /\ zstd \in BOOLEAN
    /\ layer_width \in 1..MaxCols
    /\ \/ grid \in Grids /\ flat = <<>>
       \/ grid = <<>> /\ flat \in Flats
    /\ encoded = None
    /\ decoded = None
    /\ folded = None
    /\ xml_decoded = None
    /\ json_decoded = None

Encode ==
    /\ cpc = "start"
    /\ grid # <<>>
    /\ encoded' = _encode_tile_layer_data(grid, compression, zstd)
    /\ cpc' = "encoded"
    /\ UNCHANGED <<grid, compression, zstd, layer_width, flat, decoded, folded,
                   xml_decoded, json_decoded>>
    /\ UNCHANGED not_codec_vars

Decode ==
    /\ cpc = "encoded"
    /\ encoded.err = "none"
    /\ decoded' = _decode_tile_layer_data(encoded.val, compression, layer_width, zstd)
    /\ cpc' = "decoded"
    /\ UNCHANGED <<grid, compression, zstd, layer_width, flat, encoded, folded,
                   xml_decoded, json_decoded>>
    /\ UNCHANGED not_codec_vars

ConvertRaw ==
    /\ cpc = "start"
    /\ grid = <<>>
    /\ folded' = _convert_raw_tile_layer_data(flat, layer_width)
    /\ cpc' = "folded"
    /\ UNCHANGED <<grid, compression, zstd, layer_width, flat, encoded, decoded,
                   xml_decoded, json_decoded>>
    /\ UNCHANGED not_codec_vars

XmlDecode ==
    /\ cpc = "start"
    /\ grid = <<>>
    /\ xml_decoded' = _decode_base64_data(WireText(flat, compression), layer_width,
                                          compression)
    /\ cpc' = "xml_decoded"
    /\ UNCHANGED <<grid, compression, zstd, layer_width, flat, encoded, decoded,
                   folded, json_decoded>>
    /\ UNCHANGED not_codec_vars

JsonDecode ==
    /\ cpc = "start"
    /\ grid = <<>>
    /\ json_decoded' = _decode_tile_layer_data(WireText(flat, compression),
                                               compression, layer_width, zstd)
    /\ cpc' = "json_decoded"
    /\ UNCHANGED <<grid, compression, zstd, layer_width, flat, encoded, decoded,
                   folded, xml_decoded>>
    /\ UNCHANGED not_codec_vars

\* The codec variables of a scenario that does not use the codec.
CodecIdle ==
    /\ cpc = "idle"
    /\ grid = <<>>
    /\ compression = "none"
    /\ zstd = FALSE
    /\ layer_width = 1
    /\ flat = <<>>
    /\ encoded = None
    /\ decoded = None
    /\ folded = None
    /\ xml_decoded = None
    /\ json_decoded = None

(***************************************************************************)
(* utilities.py: the GID lookup.                                           *)
(***************************************************************************)
\* max() of a non-empty collection of integers.
PyMax(S) == CHOOSE m \in S : \A k \in S : k <= m

\* _get_tile_set_key with the comparison key < gid.
KeyBelowGid(g, tile_set_keys) ==
    LET keys == {key \in tile_set_keys : key < g}
    IN  IF keys = {} THEN Raise("ValueError") ELSE Ok(PyMax(keys))

\* max([key for key in tile_set_keys if key <= gid]); max() of an empty list
\* raises ValueError.
_get_tile_set_key(g, tile_set_keys) ==
    LET keys == {key \in tile_set_keys : key <= g}
    IN  IF keys = {} THEN Raise("ValueError") ELSE Ok(PyMax(keys))

\* dict.get(key): <<value>> when the key is present, <<>> (None) otherwise.
DictGet(d, key) == IF key \in DOMAIN d THEN <<d[key]>> ELSE <<>>

get_tile_by_gid(g, sets) ==
    LET tile_set_key == _get_tile_set_key(g, DOMAIN sets)
    IN  IF tile_set_key.err # "none" THEN tile_set_key
        ELSE LET tile_set == sets[tile_set_key.val]
             IN  IF tile_set.has_tiles
                 THEN Ok(DictGet(tile_set.tiles, g - tile_set_key.val))
                 ELSE Ok(<<>>)

(***************************************************************************)
(* The lookup scenarios: a registry over the firstgids 1, 10 and 50 whose  *)
(* tilesets carry no tiles dict, a dense one or a sparse one.              *)
(***************************************************************************)
FirstGids == {1, 10, 50}

\* objects.Tile(id_=local) of the tileset registered at firstgid.
TileOf(firstgid, local) == [tile_set |-> firstgid, id_ |-> local]

\* Number of Tile records of a dense tileset at each firstgid.
DenseCount(firstgid) == IF firstgid = 1 THEN 9 ELSE IF firstgid = 10 THEN 40 ELSE 20

TileSetsAt(firstgid) ==
    { [has_tiles |-> FALSE, tiles |-> <<>>],
      [has_tiles |-> TRUE,
       tiles |-> [i \in 0..(DenseCount(firstgid) - 1) |-> TileOf(firstgid, i)]],
      [has_tiles |-> TRUE,
       tiles |-> [i \in {0, 3} |-> TileOf(firstgid, i)]] }

Registries ==
    UNION { {r \in [K -> UNION {TileSetsAt(k) : k \in K}] :
                \A k \in K : r[k] \in TileSetsAt(k)} : K \in SUBSET FirstGids }

GidStart ==
    /\ gpc = "start"
    /\ gid \in 0..MaxGid
    /\ tile_sets \in Registries
    /\ tile = None

GidIdle ==
    /\ gpc = "idle"
    /\ gid = 0
    /\ tile_sets = <<>>
    /\ tile = None

Lookup ==
    /\ gpc = "start"
    /\ tile' = get_tile_by_gid(gid, tile_sets)
    /\ gpc' = "done"
    /\ UNCHANGED <<gid, tile_sets>>
    /\ UNCHANGED not_gid_vars

(***************************************************************************)
(* The TiledObject parsers.  A JSON record is a dict, modelled as a        *)
(* function from the keys present to integers (True is 1, a list its       *)
(* length, a template its file); dict.get(key) of an absent key is None.   *)
(* An XML element is [attrib, children]: attrib the dict of its            *)
(* attributes, children a function from the tags of its child elements to  *)
(* the number of sub-elements of that child.                               *)
(***************************************************************************)
\* Truth value of dict.get(key): None, False, 0 and empty values are falsy.
Truthy(d, key) == key \in DOMAIN d /\ d[key] # 0

\* The object built by a variant parser: the shared fields and, for a Tile,
\* the gid and the pending tileset (<<>> is None).
Object(variant, raw, new_tileset) ==
    [variant |-> variant,
     id |-> raw["id"],
     gid |-> IF variant = "Tile" THEN raw["gid"] ELSE 0,
     new_tileset |-> IF variant = "Tile" THEN new_tileset ELSE <<>>]

\* parsers/json/tiled_object.py: the variant whose parser _get_parser returns.
_get_parser(raw) ==
    IF Truthy(raw, "ellipse") THEN "Ellipse"
    ELSE IF Truthy(raw, "point") THEN "Point"
    ELSE IF Truthy(raw, "gid") THEN "Tile"
    ELSE IF Truthy(raw, "polygon") THEN "Polygon"
    ELSE IF Truthy(raw, "polyline") THEN "Polyline"
    ELSE IF Truthy(raw, "text") THEN "Text"
    ELSE "Rectangle"

\* The merge loop without its test on the key: the template's id is copied too.
MergeTemplateAll(raw, loaded_template) ==
    [key \in DOMAIN raw \cup DOMAIN loaded_template |->
        IF key \in DOMAIN loaded_template THEN loaded_template[key] ELSE raw[key]]

\* for key in loaded_template: if key != "id": raw_object[key] = loaded_template[key]
MergeTemplate(raw, loaded_template) ==
    [key \in DOMAIN raw \cup (DOMAIN loaded_template \ {"id"}) |->
        IF key \in DOMAIN loaded_template /\ key # "id"
        THEN loaded_template[key] ELSE raw[key]]

\* What a call leaves behind: its outcome, the caller's record as the call
\* left it, and the files it opened.
Call(out, raw, reads) == [out |-> out, raw |-> raw, reads |-> reads]

\* The last two statements of parse: a record with a gid is a Tile, any other
\* record is what _get_parser says.
JsonDispatch(raw, new_tileset, reads) ==
    IF Truthy(raw, "gid")
    THEN Call(Ok(<<Object("Tile", raw, new_tileset)>>), raw, reads)
    ELSE Call(Ok(<<Object(_get_parser(raw), raw, <<>>)>>), raw, reads)

\* parse with the parent_dir check left out: the template is opened relative
\* to the working directory.
JsonParseUnchecked(raw, dir, file) ==
    IF Truthy(raw, "template")
    THEN JsonDispatch(MergeTemplate(raw, file.object), file.tileset,
                      <<"template">> \o (IF file.tileset # <<>> THEN <<"tileset">> ELSE <<>>))
    ELSE JsonDispatch(raw, <<>>, <<>>)

\* parsers/json/tiled_object.py: parse(raw_object, parent_dir).
json_parse(raw, dir, file) ==
    IF Truthy(raw, "template")
    THEN IF ~dir
         THEN Call(Raise("RuntimeError"), raw, <<>>)
         ELSE JsonDispatch(MergeTemplate(raw, file.object), file.tileset,
                           <<"template">> \o (IF file.tileset # <<>> THEN <<"tileset">> ELSE <<>>))
    ELSE JsonDispatch(raw, <<>>, <<>>)

\* tiled_object.py: the variant whose caster _get_caster returns.
_get_caster(raw) ==
    IF Truthy(raw, "ellipse") THEN "Ellipse"
    ELSE IF Truthy(raw, "point") THEN "Point"
    ELSE IF Truthy(raw, "gid") THEN "Tile"
    ELSE IF Truthy(raw, "polygon") THEN "Polygon"
    ELSE IF Truthy(raw, "polyline") THEN "Polyline"
    ELSE IF Truthy(raw, "text") THEN "Text"
    ELSE "Rectangle"

\* tiled_object.py: cast(raw_tiled_object, parent_dir).
cast(raw, dir, file) ==
    IF Truthy(raw, "template")
    THEN IF ~dir
         THEN Call(Raise("RuntimeError"), raw, <<>>)
         ELSE LET reads == <<"template">> \o
                           (IF file.tileset # <<>> THEN <<"tileset">> ELSE <<>>)
                  merged == MergeTemplate(raw, file.object)
              IN  IF Truthy(merged, "gid")
                  THEN Call(Ok(<<Object("Tile", merged, file.tileset)>>), merged, reads)
                  ELSE Call(Ok(<<Object(_get_caster(merged), merged, <<>>)>>), merged, reads)
    ELSE IF Truthy(raw, "gid")
         THEN Call(Ok(<<Object("Tile", raw, <<>>)>>), raw, <<>>)
         ELSE Call(Ok(<<Object(_get_caster(raw), raw, <<>>)>>), raw, <<>>)

\* Truth value of element.find("./tag"): None when there is no such child,
\* and an Element without sub-elements tests false.
Found(element, tag) ==
    tag \in DOMAIN element.children /\ element.children[tag] > 0

\* Truth value of element.attrib.get(key): attribute values are non-empty text.
HasAttrib(element, key) == key \in DOMAIN element.attrib

\* The object built by a TMX variant parser.
TmxObject(variant, element, new_tileset) ==
    [variant |-> variant,
     id |-> element.attrib["id"],
     gid |-> IF variant = "Tile" THEN element.attrib["gid"] ELSE 0,
     new_tileset |-> IF variant = "Tile" THEN new_tileset ELSE <<>>]

\* parsers/tmx/tiled_object.py: the variant whose parser _get_parser returns.
tmx_get_parser(element) ==
    IF Found(element, "ellipse") THEN "Ellipse"
    ELSE IF Found(element, "point") THEN "Point"
    ELSE IF HasAttrib(element, "gid") THEN "Tile"
    ELSE IF Found(element, "polygon") THEN "Polygon"
    ELSE IF Found(element, "polyline") THEN "Polyline"
    ELSE IF Found(element, "text") THEN "Text"
    ELSE "Rectangle"

\* The last two statements of the TMX parse.
TmxDispatch(element, new_tileset, caller, reads) ==
    IF HasAttrib(element, "gid")
    THEN Call(Ok(<<TmxObject("Tile", element, new_tileset)>>), caller, reads)
    ELSE Call(Ok(<<TmxObject(tmx_get_parser(element), element, <<>>)>>), caller, reads)

\* parsers/tmx/tiled_object.py: parse(raw_object, parent_dir).  file is the
\* template document: tileset and object are <<>> when the root has no such
\* child, else <<element>>; the tileset element carries the parsed content of
\* the tileset file its source names.
tmx_parse(element, dir, file) ==
    IF HasAttrib(element, "template")
    THEN IF ~dir
         THEN Call(Raise("RuntimeError"), element, <<>>)
         ELSE LET tileset_found == file.tileset # <<>> /\ file.tileset[1].subelements > 0
                  new_tileset == IF tileset_found THEN <<file.tileset[1].content>> ELSE <<>>
                  reads == <<"template">> \o
                           (IF tileset_found THEN <<"tileset">> ELSE <<>>)
                  object_found == file.object # <<>> /\ DOMAIN file.object[1].children # {}
                  new_object ==
                      IF HasAttrib(element, "id") /\ object_found
                      THEN [file.object[1] EXCEPT
                               !.attrib = [key \in DOMAIN @ \cup {"id"} |->
                                   IF key = "id" THEN element.attrib["id"] ELSE @[key]]]
                      ELSE IF object_found THEN file.object[1] ELSE element
              IN  TmxDispatch(new_object, new_tileset, element, reads)
    ELSE TmxDispatch(element, <<>>, element, <<>>)

(***************************************************************************)
(* The object scenarios: one record, with or without a template, parsed by *)
(* one of the three parsers, with or without a parent directory.           *)
(***************************************************************************)
HostId == 3
TemplateId == 9

\* The keys, or child tags, that mark a variant other than Tile.
Markers == {"ellipse", "point", "polygon", "polyline", "text"}

\* A JSON record with the given id, the markers of flags set, gid g (absent
\* when negative) and template t (absent when 0).
Record(id, flags, g, t) ==
    [key \in {"id"} \cup flags \cup (IF g >= 0 THEN {"gid"} ELSE {})
                  \cup (IF t > 0 THEN {"template"} ELSE {}) |->
        IF key = "id" THEN id
        ELSE IF key = "gid" THEN g
        ELSE IF key = "template" THEN t
        ELSE 1]

\* The tileset a template bundles, as read from its tileset file.
BundledTileset == [name |-> "template_tiles", tilecount |-> 2]

JsonRecords ==
    {Record(HostId, flags, g, t) : flags \in SUBSET Markers, g \in {-1, 0, 2}, t \in {0, 1}}

JsonTemplateFiles ==
    {[object |-> Record(TemplateId, flags, g, 0), tileset |-> ts] :
        flags \in {{}, {"point"}, {"ellipse"}}, g \in {-1, 1},
        ts \in {<<>>, <<BundledTileset>>}}

\* An <object> element: attributes as in Record, children a function from
\* child tags to their number of sub-elements.
Element(id, g, t, children) ==
    [attrib |-> Record(id, {}, g, t), children |-> children]

ChildSets == UNION {[tags -> {0, 1}] : tags \in SUBSET Markers}

TmxElements ==
    {Element(HostId, g, t, children) :
        g \in {-1, 2}, t \in {0, 1}, children \in ChildSets}

TmxTemplateFiles ==
    {[tileset |-> ts, object |-> ob] :
        ts \in {<<>>} \cup {<<[subelements |-> n, content |-> BundledTileset]>> : n \in {0, 1}},
        ob \in {<<>>} \cup
              {<<Element(TemplateId, g, 0, children)>> :
                  g \in {-1, 1},
                  children \in {[tag \in {} |-> 0], [tag \in {"point"} |-> 0],
                                [tag \in {"properties"} |-> 1]}}}

\* The file read when the record names no template is never opened.
NoFile == [object |-> <<>>, tileset |-> <<>>]

ObjStart ==
    /\ opc = "start"
    /\ adapter \in {"json", "cast", "tmx"}
    /\ parent_dir \in BOOLEAN
    /\ raw_object \in (IF adapter = "tmx" THEN TmxElements ELSE JsonRecords)
    /\ template_file \in
          (IF adapter = "tmx"
           THEN (IF HasAttrib(raw_object, "template") THEN TmxTemplateFiles ELSE {NoFile})
           ELSE (IF Truthy(raw_object, "template") THEN JsonTemplateFiles ELSE {NoFile}))
    /\ files_read = <<>>
    /\ tiled_object = None

ObjIdle ==
    /\ opc = "idle"
    /\ adapter = "none"
    /\ parent_dir = FALSE
    /\ raw_object = <<>>
    /\ template_file = NoFile
    /\ files_read = <<>>
    /\ tiled_object = None

\* The state a call of a parser leaves behind.
Returned(call) ==
    /\ tiled_object' = call.out
    /\ raw_object' = call.raw
    /\ files_read' = call.reads
    /\ opc' = "done"
    /\ UNCHANGED <<adapter, parent_dir, template_file>>
    /\ UNCHANGED not_obj_vars

ParseJson ==
    /\ opc = "start"
    /\ adapter = "json"
    /\ Returned(json_parse(raw_object, parent_dir, template_file))

Cast ==
    /\ opc = "start"
    /\ adapter = "cast"
    /\ Returned(cast(raw_object, parent_dir, template_file))

ParseTmx ==
    /\ opc = "start"
    /\ adapter = "tmx"
    /\ Returned(tmx_parse(raw_object, parent_dir, template_file))

(***************************************************************************)
(* The map assembler.  A Python dict keeps its keys in insertion order: it *)
(* is modelled as [order, at], order the sequence of its keys and at the   *)
(* function from keys to values.                                           *)
(***************************************************************************)
EmptyDict == [order |-> <<>>, at |-> <<>>]

Keys(d) == {d.order[i] : i \in 1..Len(d.order)}

\* d[key] = value: a new key goes last, an existing key keeps its place.
DictSet(d, key, value) ==
    [order |-> IF key \in Keys(d) THEN d.order ELSE Append(d.order, key),
     at |-> [k \in Keys(d) \cup {key} |-> IF k = key THEN value ELSE d.at[k]]]

\* tileset.cast(raw_tileset, firstgid, external_path): the fields of the
\* Tileset the assembler reads.
tileset_cast(raw_tileset, firstgid) ==
    [name |-> raw_tileset.name,
     tile_count |-> raw_tileset.tilecount,
     firstgid |-> firstgid]

\* parsers.tmx.tileset.parse(raw_tileset, firstgid, external_path).
parse_tileset(raw_tileset, firstgid) ==
    [name |-> raw_tileset.name,
     tile_count |-> raw_tileset.tilecount,
     firstgid |-> firstgid]

RECURSIVE LoadTilesets(_, _, _)
\* The loop over the declared tilesets.  In the TMX assembler the name
\* raw_tileset is rebound to the root of the external file, which carries
\* no firstgid attribute: reading it raises KeyError.
LoadTilesets(format, raw_tilesets, dict) ==
    IF raw_tilesets = <<>> THEN Ok(dict)
    ELSE LET raw_tileset == raw_tilesets[1]
         IN  IF format = "tmx" /\ raw_tileset.external
             THEN Raise("KeyError")
             ELSE LoadTilesets(format, Tail(raw_tilesets),
                      DictSet(dict, raw_tileset.firstgid,
                              IF format = "tmx"
                              THEN parse_tileset(raw_tileset, raw_tileset.firstgid)
                              ELSE tileset_cast(raw_tileset, raw_tileset.firstgid)))

\* The template file a record names, NoFile when it names none.
FileOf(template, files) == IF template = 0 THEN NoFile ELSE files[template]

RECURSIVE CastObjects(_, _)
\* for tiled_object_ in raw_layer["objects"]:
\*     tiled_objects.append(tiled_object.cast(tiled_object_, parent_dir))
CastObjects(raws, files) ==
    IF raws = <<>> THEN <<>>
    ELSE LET template == IF Truthy(raws[1], "template") THEN raws[1]["template"] ELSE 0
         IN  <<cast(raws[1], TRUE, FileOf(template, files)).out.val[1]>>
             \o CastObjects(Tail(raws), files)

\* layer.py: _cast_object_layer
_cast_object_layer(raw_layer, files) ==
    [type |-> "ObjectLayer",
     tiled_objects |-> CastObjects(raw_layer.objects, files),
     draw_order |-> raw_layer.draworder,
     layers |-> <<>>]

RECURSIVE layer_cast(_, _)
RECURSIVE CastLayers(_, _)
\* layer.py: _cast_group_layer
_cast_group_layer(raw_layer, files) ==
    [type |-> "LayerGroup",
     tiled_objects |-> <<>>,
     layers |-> CastLayers(raw_layer.layers, files)]

\* layer.py: cast(raw_layer, parent_dir)
layer_cast(raw_layer, files) ==
    IF raw_layer.type = "objectgroup" THEN _cast_object_layer(raw_layer, files)
    ELSE IF raw_layer.type = "group" THEN _cast_group_layer(raw_layer, files)
    ELSE [type |-> "TileLayer", tiled_objects |-> <<>>, layers |-> <<>>]

\* [layer.cast(layer_, parent_dir) for layer_ in ...]
CastLayers(raw_layers, files) ==
    IF raw_layers = <<>> THEN <<>>
    ELSE <<layer_cast(raw_layers[1], files)>> \o CastLayers(Tail(raw_layers), files)
RECURSIVE ParseObjects(_, _)
\* The <object> children of an object group, each parsed by the TMX object
\* parser with the map's directory.
ParseObjects(elements, files) ==
    IF elements = <<>> THEN <<>>
    ELSE LET template == IF HasAttrib(elements[1], "template")
                         THEN elements[1].attrib["template"] ELSE 0
         IN  <<tmx_parse(elements[1], TRUE, FileOf(template, files)).out.val[1]>>
             \o ParseObjects(Tail(elements), files)

\* parsers/tmx/layer.py: _parse_object_layer
_parse_object_layer(raw_layer, files) ==
    [type |-> "ObjectLayer",
     tiled_objects |-> ParseObjects(raw_layer.objects, files),
     layers |-> <<>>]

RECURSIVE tmx_layer_parse(_, _)
RECURSIVE ParseLayers(_, _)
\* parsers/tmx/layer.py: _parse_group_layer
_parse_group_layer(raw_layer, files) ==
    [type |-> "LayerGroup",
     tiled_objects |-> <<>>,
     layers |-> ParseLayers(raw_layer.layers, files)]

\* parsers/tmx/layer.py: parse(raw_layer, parent_dir)
tmx_layer_parse(raw_layer, files) ==
    IF raw_layer.type = "objectgroup" THEN _parse_object_layer(raw_layer, files)
    ELSE IF raw_layer.type = "group" THEN _parse_group_layer(raw_layer, files)
    ELSE [type |-> "TileLayer", tiled_objects |-> <<>>, layers |-> <<>>]

\* layers.append(parse_layer(element, parent_dir)) for each element of a list
ParseLayers(raw_layers, files) ==
    IF raw_layers = <<>> THEN <<>>
    ELSE <<tmx_layer_parse(raw_layers[1], files)>> \o ParseLayers(Tail(raw_layers), files)

RECURSIVE Iter(_)
\* raw_map.iter() filtered on the layer tags: every layer element of the
\* document at every depth, in document order.
Iter(raw_layers) ==
    IF raw_layers = <<>> THEN <<>>
    ELSE <<raw_layers[1]>> \o Iter(raw_layers[1].layers) \o Iter(Tail(raw_layers))

\* The list handed to TiledMap(layers=...).
MapLayers(format, raw_layers, files) ==
    IF format = "tmx" THEN ParseLayers(Iter(raw_layers), files)
    ELSE CastLayers(raw_layers, files)

RECURSIVE Positions(_, _)
\* The (layer, object) index pairs the two nested for loops of the pass
\* visit: the objects of the entries of map_.layers that have tiled_objects.
Positions(layer_list, i) ==
    IF i > Len(layer_list) THEN <<>>
    ELSE (IF layer_list[i].type = "ObjectLayer"
          THEN [j \in 1..Len(layer_list[i].tiled_objects) |-> <<i, j>>]
          ELSE <<>>)
         \o Positions(layer_list, i + 1)

\* hasattr(tiled_object, "new_tileset") and the truth value of new_tileset:
\* None is false, a dict is true when not empty, an Element when it has
\* sub-elements.
PendingTruthy(format, tiled) ==
    /\ tiled.variant = "Tile"
    /\ tiled.new_tileset # <<>>
    /\ (format = "tmx" => tiled.new_tileset[1].subelements > 0)

\* The loop over map_.tilesets.values(): the first registered tileset whose
\* name is the pending tileset's, <<>> (None) when there is none.
AlreadyLoaded(dict, name) ==
    LET hits == {i \in 1..Len(dict.order) : dict.at[dict.order[i]].name = name}
    IN  IF hits = {} THEN <<>>
        ELSE <<dict.at[dict.order[CHOOSE i \in hits : \A j \in hits : i <= j]]>>

\* highest_firstgid + last_tileset_count
NewFirstgid(dict) ==
    LET highest_firstgid == PyMax(Keys(dict))
        last_tileset_count == dict.at[highest_firstgid].tile_count
    IN  highest_firstgid + last_tileset_count

\* tiled_map.py: the body of the pass for one tiled object with a pending
\* tileset: the registry and the object as the body leaves them, or the
\* error it raises (max() of no keys raises ValueError).
InjectJson(dict, tiled) ==
    LET new_tileset == tiled.new_tileset[1]
        already_loaded == AlreadyLoaded(dict, new_tileset.name)
    IN  IF already_loaded = <<>>
        THEN IF Keys(dict) = {}
             THEN Raise("ValueError")
             ELSE LET new_firstgid == NewFirstgid(dict)
                  IN  Ok([tilesets |-> DictSet(dict, new_firstgid,
                                           tileset_cast(new_tileset, new_firstgid)),
                          tiled_object |->
                              [tiled EXCEPT !.gid = @ + (new_firstgid - 1),
                                            !.new_tileset = <<>>]])
        ELSE Ok([tilesets |-> dict,
                 tiled_object |->
                     [tiled EXCEPT !.gid = @ + (already_loaded[1].firstgid - 1),
                                   !.new_tileset = <<>>]])

\* parsers/tmx/tiled_map.py: the same body, where new_tileset is an Element:
\* new_tileset["name"] raises TypeError as soon as one registered tileset is
\* compared; with no tileset registered, max() of no keys raises ValueError.
InjectTmx(dict, tiled) ==
    IF Keys(dict) # {} THEN Raise("TypeError") ELSE Raise("ValueError")

(***************************************************************************)
(* The map scenarios: a map file with some declared tilesets and up to     *)
(* MaxObjects objects, laid out in object groups at the top level or       *)
(* inside groups.  Objects are numbered in document order.                 *)
(***************************************************************************)
MaxObjects == 2

\* An entry of the map's tileset list.
RawTileset(name, firstgid, tilecount, external) ==
    [name |-> name, firstgid |-> firstgid, tilecount |-> tilecount,
     external |-> external]

DeclaredTilesets ==
    {<<>>,
     <<RawTileset("A", 1, 48, FALSE)>>,
     <<RawTileset("A", 1, 48, TRUE)>>,
     <<RawTileset("A", 1, 5, FALSE), RawTileset("B", 6, 0, FALSE)>>,
     <<RawTileset("A", 1, 5, FALSE), RawTileset("B", 3, 0, FALSE)>>,
     <<RawTileset("A", 1, 5, FALSE), RawTileset("B", 3, 4, FALSE)>>,
     <<RawTileset("A", 1, 5, FALSE), RawTileset("B", 10, 3, FALSE)>>,
     <<RawTileset("B", 10, 3, FALSE), RawTileset("A", 1, 5, FALSE)>>,
     <<RawTileset("T", 1, 2, FALSE)>>}

\* An element without child elements.
Childless == [tag \in {} |-> 0]

\* The JSON template files of the map's directory: tile objects with local
\* gid 1 or 2 bundling a tileset named T, one bundling a tileset named U,
\* and one that bundles no tileset.
JsonMapTemplates ==
    <<[object |-> Record(TemplateId, {}, 1, 0), tileset |-> <<[name |-> "T", tilecount |-> 2]>>],
      [object |-> Record(TemplateId, {}, 2, 0), tileset |-> <<[name |-> "T", tilecount |-> 2]>>],
      [object |-> Record(TemplateId, {}, 1, 0), tileset |-> <<[name |-> "U", tilecount |-> 1]>>],
      [object |-> Record(TemplateId, {}, 1, 0), tileset |-> <<>>]>>

\* The root element of a tileset file, with its number of sub-elements.
TsxRoot(name, tilecount, subelements) ==
    [name |-> name, tilecount |-> tilecount, subelements |-> subelements]

\* The TMX template files: the first three as the JSON ones, with a tileset
\* element and an object element that have sub-elements; the fourth as the
\* editor writes it (<tileset source=.../> and <object gid=.../> without
\* children); the fifth names a tileset file whose root has no children.
TmxMapTemplates ==
    <<[tileset |-> <<[subelements |-> 1, content |-> TsxRoot("T", 2, 1)]>>,
       object |-> <<Element(TemplateId, 1, 0, [tag \in {"properties"} |-> 1])>>],
      [tileset |-> <<[subelements |-> 1, content |-> TsxRoot("T", 2, 1)]>>,
       object |-> <<Element(TemplateId, 2, 0, [tag \in {"properties"} |-> 1])>>],
      [tileset |-> <<[subelements |-> 1, content |-> TsxRoot("U", 1, 1)]>>,
       object |-> <<Element(TemplateId, 1, 0, [tag \in {"properties"} |-> 1])>>],
      [tileset |-> <<[subelements |-> 0, content |-> TsxRoot("T", 2, 1)]>>,
       object |-> <<Element(TemplateId, 1, 0, Childless)>>],
      [tileset |-> <<[subelements |-> 1, content |-> TsxRoot("T", 2, 0)]>>,
       object |-> <<Element(TemplateId, 1, 0, [tag \in {"properties"} |-> 1])>>]>>

MapTemplates(format) == IF format = "tmx" THEN TmxMapTemplates ELSE JsonMapTemplates

\* The kinds of object a map holds: -1 a tile object with gid 2 of its own,
\* 0 a rectangle, n > 0 an instance of template n.
Kinds(format) == -1..Len(MapTemplates(format))

\* The record, or element, of the object with the given id and kind.
MapObject(format, id, kind) ==
    LET own_gid == IF kind = -1 THEN 2 ELSE -1
        template == IF kind > 0 THEN kind ELSE 0
    IN  IF format = "tmx" THEN Element(id, own_gid, template, Childless)
        ELSE Record(id, {}, own_gid, template)

ObjectGroup(objects) ==
    [type |-> "objectgroup", objects |-> objects, draworder |-> "topdown", layers |-> <<>>]

Group(children) == [type |-> "group", objects |-> <<>>, layers |-> children]

TileLayer(format) ==
    [type |-> IF format = "tmx" THEN "layer" ELSE "tilelayer",
     objects |-> <<>>, layers |-> <<>>]

Layouts == {"top", "nested", "deep", "split"}

\* The layer list of the document: the objects in one top-level object
\* group; in an object group inside a group; inside two groups; or the first
\* object at the top level and the others inside a group.
RawLayers(format, layout, objects) ==
    IF layout = "top" THEN <<TileLayer(format), ObjectGroup(objects)>>
    ELSE IF layout = "nested" THEN <<TileLayer(format), Group(<<ObjectGroup(objects)>>)>>
    ELSE IF layout = "deep" THEN <<Group(<<Group(<<ObjectGroup(objects)>>)>>)>>
    ELSE IF objects = <<>> THEN <<ObjectGroup(<<>>), Group(<<ObjectGroup(<<>>)>>)>>
    ELSE <<ObjectGroup(<<objects[1]>>), Group(<<ObjectGroup(Tail(objects))>>)>>

RawMaps(format) ==
    {[tilesets |-> declared,
      layers |-> RawLayers(format, layout,
                           [id \in 1..Len(kinds) |-> MapObject(format, id, kinds[id])])] :
        declared \in DeclaredTilesets,
        layout \in Layouts,
        kinds \in UNION {[1..n -> Kinds(format)] : n \in 0..MaxObjects}}

MapStart ==
    /\ mpc = "start"
    /\ map_format \in {"json", "tmx"}
    /\ raw_map \in RawMaps(map_format)
    /\ tilesets = EmptyDict
    /\ layers = <<>>
    /\ parsed_layers = <<>>
    /\ cursor = 0
    /\ map_error = "none"

MapIdle ==
    /\ mpc = "idle"
    /\ map_format = "none"
    /\ raw_map = [tilesets |-> <<>>, layers |-> <<>>]
    /\ tilesets = EmptyDict
    /\ layers = <<>>
    /\ parsed_layers = <<>>
    /\ cursor = 0
    /\ map_error = "none"

\* The loop over raw_tilesets.
LoadDeclared ==
    /\ mpc = "start"
    /\ LET loaded == LoadTilesets(map_format, raw_map.tilesets, EmptyDict)
       IN  IF loaded.err = "none"
           THEN /\ tilesets' = loaded.val
                /\ mpc' = "layers"
                /\ UNCHANGED map_error
           ELSE /\ map_error' = loaded.err
                /\ mpc' = "failed"
                /\ UNCHANGED tilesets
    /\ UNCHANGED <<map_format, raw_map, layers, parsed_layers, cursor>>
    /\ UNCHANGED not_map_vars

\* map_ = TiledMap(layers=..., tilesets=tilesets, ...)
BuildMap ==
    /\ mpc = "layers"
    /\ layers' = MapLayers(map_format, raw_map.layers, MapTemplates(map_format))
    /\ parsed_layers' = layers'
    /\ mpc' = "inject"
    /\ UNCHANGED <<map_format, raw_map, tilesets, cursor, map_error>>
    /\ UNCHANGED not_map_vars

\* One iteration of the inner loop of the pass, for the next tiled object of
\* the layers that have tiled_objects.
InjectStep ==
    /\ mpc = "inject"
    /\ cursor < Len(Positions(layers, 1))
    /\ LET position == Positions(layers, 1)[cursor + 1]
           tiled == layers[position[1]].tiled_objects[position[2]]
           result == IF map_format = "tmx" THEN InjectTmx(tilesets, tiled)
                     ELSE InjectJson(tilesets, tiled)
       IN  IF ~PendingTruthy(map_format, tiled)
           THEN /\ cursor' = cursor + 1
                /\ UNCHANGED <<mpc, tilesets, layers, map_error>>
           ELSE IF result.err = "none"
           THEN /\ tilesets' = result.val.tilesets
                /\ layers' = [layers EXCEPT ![position[1]].tiled_objects[position[2]] =
                                  result.val.tiled_object]
                /\ cursor' = cursor + 1
                /\ UNCHANGED <<mpc, map_error>>
           ELSE /\ map_error' = result.err
                /\ mpc' = "failed"
                /\ UNCHANGED <<tilesets, layers, cursor>>
    /\ UNCHANGED <<map_format, raw_map, parsed_layers>>
    /\ UNCHANGED not_map_vars

\* The loops are over: the map-level scalars are attached and map_ returned.
ReturnMap ==
    /\ mpc = "inject"
    /\ cursor = Len(Positions(layers, 1))
    /\ mpc' = "done"
    /\ UNCHANGED <<map_format, raw_map, tilesets, layers, parsed_layers, cursor, map_error>>
    /\ UNCHANGED not_map_vars

(***************************************************************************)
(* The JSON layer parser.  A layer record is a dict, modelled as a record  *)
(* over the keys present.  A Layer is [variant, id, size, ...]: id and     *)
(* size are <<>> (None) or <<value>>; a TileLayer adds chunks, data,       *)
(* encoding and compression, an ObjectLayer tiled_objects and draw_order,  *)
(* an ImageLayer image, a LayerGroup layers.                               *)
(***************************************************************************)
Has(d, key) == key \in DOMAIN d

\* parsers/json/layer.py: _parse_common, the attributes every Layer has.
json_parse_common(raw) ==
    [id |-> IF Has(raw, "id") THEN <<raw.id>> ELSE <<>>,
     size |-> IF Has(raw, "width") THEN <<raw.width>> ELSE <<>>]

\* The tile data of a layer or chunk record: decoded when an encoding is
\* given, folded into rows when it is a plain list.
TileData(raw, coded, comp, zstd_there) ==
    IF coded THEN _decode_tile_layer_data(raw.data, comp, raw.width, zstd_there)
    ELSE _convert_raw_tile_layer_data(raw.data, raw.width)

\* parsers/json/layer.py: _parse_chunk
_parse_chunk(raw_chunk, coded, comp, zstd_there) ==
    LET data == TileData(raw_chunk, coded, comp, zstd_there)
    IN  IF data.err # "none" THEN data
        ELSE Ok([coordinates |-> <<raw_chunk.x, raw_chunk.y>>,
                 size |-> <<raw_chunk.width, raw_chunk.height>>,
                 data |-> data.val])

RECURSIVE ParseChunks(_, _, _, _)
\* for chunk in raw_layer["chunks"]: tile_layer.chunks.append(_parse_chunk(...))
ParseChunks(raw_chunks, coded, comp, zstd_there) ==
    IF raw_chunks = <<>> THEN Ok(<<>>)
    ELSE LET first == _parse_chunk(raw_chunks[1], coded, comp, zstd_there)
             others == ParseChunks(Tail(raw_chunks), coded, comp, zstd_there)
         IN  IF first.err # "none" THEN first
             ELSE IF others.err # "none" THEN others
             ELSE Ok(<<first.val>> \o others.val)

\* parsers/json/layer.py: _parse_tile_layer
json_parse_tile_layer(raw, zstd_there) ==
    LET coded == Has(raw, "encoding")
        comp == IF coded THEN raw.compression ELSE "none"
        chunks == IF Has(raw, "chunks")
                  THEN ParseChunks(raw.chunks, coded, comp, zstd_there)
                  ELSE Ok(<<>>)
        data == IF Has(raw, "data") THEN TileData(raw, coded, comp, zstd_there)
                ELSE Ok(<<>>)
        set == (Has(raw, "chunks") /\ raw.chunks # <<>> /\ coded) \/ (Has(raw, "data") /\ coded)
    IN  IF chunks.err # "none" THEN chunks
        ELSE IF data.err # "none" THEN data
        ELSE Ok([variant |-> "TileLayer",
                 id |-> json_parse_common(raw).id,
                 size |-> json_parse_common(raw).size,
                 chunks |-> IF Has(raw, "chunks") THEN <<chunks.val>> ELSE <<>>,
                 data |-> IF Has(raw, "data") THEN <<data.val>> ELSE <<>>,
                 encoding |-> IF set THEN raw.encoding ELSE "csv",
                 compression |-> IF set THEN raw.compression ELSE "none"])

RECURSIVE ParseRawObjects(_)
\* The loop with objects.insert(0, ...) in place of objects.append(...).
ParseRawObjectsReversed(raws) ==
    IF raws = <<>> THEN Ok(<<>>)
    ELSE LET first == json_parse(raws[1], FALSE, NoFile).out
             others == ParseRawObjects(Tail(raws))
         IN  IF first.err # "none" THEN first
             ELSE IF others.err # "none" THEN others
             ELSE Ok(others.val \o first.val)

\* for object_ in raw_layer["objects"]: objects.append(parse_object(object_, parent_dir))
ParseRawObjects(raws) ==
    IF raws = <<>> THEN Ok(<<>>)
    ELSE LET first == json_parse(raws[1], FALSE, NoFile).out
             others == ParseRawObjects(Tail(raws))
         IN  IF first.err # "none" THEN first
             ELSE IF others.err # "none" THEN others
             ELSE Ok(first.val \o others.val)

\* parsers/json/layer.py: _parse_object_layer
json_parse_object_layer(raw) ==
    LET objects == ParseRawObjects(raw.objects)
    IN  IF objects.err # "none" THEN objects
        ELSE Ok([variant |-> "ObjectLayer",
                 id |-> json_parse_common(raw).id,
                 size |-> json_parse_common(raw).size,
                 tiled_objects |-> objects.val,
                 draw_order |-> raw.draworder])

\* parsers/json/layer.py: _parse_image_layer
json_parse_image_layer(raw) ==
    Ok([variant |-> "ImageLayer",
        id |-> json_parse_common(raw).id,
        size |-> json_parse_common(raw).size,
        image |-> raw.image])

RECURSIVE layer_parse(_, _)
RECURSIVE ParseChildren(_, _)
\* parsers/json/layer.py: _parse_group_layer; raw_layer["layers"] of a record
\* without that key raises KeyError.
json_parse_group_layer(raw, zstd_there) ==
    IF ~Has(raw, "layers") THEN Raise("KeyError")
    ELSE LET children == ParseChildren(raw.layers, zstd_there)
         IN  IF children.err # "none" THEN children
             ELSE Ok([variant |-> "LayerGroup",
                      id |-> json_parse_common(raw).id,
                      size |-> json_parse_common(raw).size,
                      layers |-> children.val])

\* parse with a final else in place of the last elif: a record of any other
\* type is parsed as a tile layer.
LayerParseLenient(raw, zstd_there) ==
    IF raw.type = "objectgroup" THEN json_parse_object_layer(raw)
    ELSE IF raw.type = "group" THEN json_parse_group_layer(raw, zstd_there)
    ELSE IF raw.type = "imagelayer" THEN json_parse_image_layer(raw)
    ELSE json_parse_tile_layer(raw, zstd_there)

\* parsers/json/layer.py: parse(raw_layer, parent_dir)
layer_parse(raw, zstd_there) ==
    IF raw.type = "objectgroup" THEN json_parse_object_layer(raw)
    ELSE IF raw.type = "group" THEN json_parse_group_layer(raw, zstd_there)
    ELSE IF raw.type = "imagelayer" THEN json_parse_image_layer(raw)
    ELSE IF raw.type = "tilelayer" THEN json_parse_tile_layer(raw, zstd_there)
    ELSE Raise("RuntimeError")

\* for layer in raw_layer["layers"]: layers.append(parse(layer, parent_dir))
ParseChildren(raws, zstd_there) ==
    IF raws = <<>> THEN Ok(<<>>)
    ELSE LET first == layer_parse(raws[1], zstd_there)
             others == ParseChildren(Tail(raws), zstd_there)
         IN  IF first.err # "none" THEN first
             ELSE IF others.err # "none" THEN others
             ELSE Ok(<<first.val>> \o others.val)

(***************************************************************************)
(* The layer tree of xml_parser.py.  An element is [tag, name, children];  *)
(* a parsed layer is [variant, id, name] and, for a LayerGroup, layers.    *)
(***************************************************************************)
\* element.find("./tag") is not None
XmlFind(element, tag) ==
    \E i \in 1..Len(element.children) : element.children[i].tag = tag

\* xml_parser.py: _parse_layer.  "id" in layer_element tests the children of
\* the element, never its attributes, so id_ is None.
_parse_layer(layer_element) ==
    [id |-> <<>>, name |-> layer_element.name]

\* xml_parser.py: _parse_tile_layer
xml_parse_tile_layer(element) ==
    IF XmlFind(element, "data")
    THEN Ok([variant |-> "TileLayer", id |-> _parse_layer(element).id,
             name |-> _parse_layer(element).name])
    ELSE Raise("ValueError")

\* xml_parser.py: _parse_object_layer
xml_parse_object_layer(element) ==
    Ok([variant |-> "ObjectLayer", id |-> _parse_layer(element).id,
        name |-> _parse_layer(element).name])

\* xml_parser.py: _get_layer_parser, the name of the parser or "None".
_get_layer_parser(layer_tag) ==
    IF layer_tag = "layer" THEN "_parse_tile_layer"
    ELSE IF layer_tag = "objectgroup" THEN "_parse_object_layer"
    ELSE IF layer_tag = "group" THEN "_parse_layer_group"
    ELSE "None"

RECURSIVE GetLayersLoop(_)
RECURSIVE _parse_layer_group(_)
\* xml_parser.py: _get_layers, the loop over map_element.findall("./"):
\* an element whose tag has no parser is passed over.
GetLayersLoop(elements) ==
    IF elements = <<>> THEN Ok(<<>>)
    ELSE LET element == elements[1]
             layer_parser == _get_layer_parser(element.tag)
             first == IF layer_parser = "_parse_tile_layer"
                      THEN xml_parse_tile_layer(element)
                      ELSE IF layer_parser = "_parse_object_layer"
                      THEN xml_parse_object_layer(element)
                      ELSE _parse_layer_group(element)
             others == GetLayersLoop(Tail(elements))
         IN  IF layer_parser = "None" THEN others
             ELSE IF first.err # "none" THEN first
             ELSE IF others.err # "none" THEN others
             ELSE Ok(<<first.val>> \o others.val)

\* xml_parser.py: _get_layers
_get_layers(map_element) == GetLayersLoop(map_element.children)

\* xml_parser.py: _parse_layer_group
_parse_layer_group(element) ==
    LET children == _get_layers(element)
    IN  IF children.err # "none" THEN children
        ELSE Ok([variant |-> "LayerGroup", id |-> _parse_layer(element).id,
                 name |-> _parse_layer(element).name, layers |-> children.val])

(***************************************************************************)
(* The JSON layer serializer.                                              *)
(***************************************************************************)
\* d[key] = value on a dict that is being built.
Put(d, key, value) ==
    [k \in DOMAIN d \cup {key} |-> IF k = key THEN value ELSE d[k]]

\* parsers/json/tiled_object.py: serialize(object), for the variants without
\* a point list or a text.
serialize_object(object) ==
    LET common == [id |-> object.id]
    IN  IF object.variant = "Tile" THEN Put(common, "gid", object.gid)
        ELSE IF object.variant = "Point" THEN Put(common, "point", 1)
        ELSE IF object.variant = "Ellipse" THEN Put(common, "ellipse", 1)
        ELSE common

\* parsers/json/layer.py: _serialize_common; the id is written when it is
\* truthy, the size when there is one.
json_serialize_common(layer, type) ==
    LET with_type == [type |-> type]
        with_id == IF layer.id # <<>> /\ layer.id[1] # 0
                   THEN Put(with_type, "id", layer.id[1]) ELSE with_type
    IN  IF layer.size # <<>> THEN Put(with_id, "width", layer.size[1]) ELSE with_id

\* The tile data of a layer or chunk as written: encoded when the layer's
\* encoding is base64, flattened otherwise.
RawData(grid_, encoding_, comp, zstd_there) ==
    IF encoding_ = "base64" THEN _encode_tile_layer_data(grid_, comp, zstd_there)
    ELSE Ok(_convert_tile_layer_data_to_raw(grid_))

RECURSIVE SerializeChunks(_, _, _, _)
\* for chunk in layer.chunks: raw_chunks.append(_serialize_chunk(...))
SerializeChunks(chunks, encoding_, comp, zstd_there) ==
    IF chunks = <<>> THEN Ok(<<>>)
    ELSE LET data == RawData(chunks[1].data, encoding_, comp, zstd_there)
             others == SerializeChunks(Tail(chunks), encoding_, comp, zstd_there)
         IN  IF data.err # "none" THEN data
             ELSE IF others.err # "none" THEN others
             ELSE Ok(<<[data |-> data.val,
                        width |-> chunks[1].size[1], height |-> chunks[1].size[2],
                        x |-> chunks[1].coordinates[1], y |-> chunks[1].coordinates[2]]>>
                     \o others.val)

\* parsers/json/layer.py: _serialize_tile_layer
_serialize_tile_layer(layer, zstd_there) ==
    LET common == json_serialize_common(layer, "tilelayer")
        has_chunks == layer.chunks # <<>> /\ layer.chunks[1] # <<>>
        raw_chunks == IF has_chunks
                      THEN SerializeChunks(layer.chunks[1], layer.encoding,
                                           layer.compression, zstd_there)
                      ELSE Ok(<<>>)
        has_data == layer.data # <<>> /\ layer.data[1] # <<>>
        raw_data == IF has_data
                    THEN RawData(layer.data[1], layer.encoding, layer.compression,
                                 zstd_there)
                    ELSE Ok(<<>>)
        with_chunks == IF has_chunks THEN Put(common, "chunks", raw_chunks.val)
                       ELSE common
        with_data == IF has_data THEN Put(with_chunks, "data", raw_data.val)
                     ELSE with_chunks
    IN  IF raw_chunks.err # "none" THEN raw_chunks
        ELSE IF raw_data.err # "none" THEN raw_data
        ELSE IF layer.encoding # "csv"
        THEN Ok(Put(Put(with_data, "encoding", layer.encoding),
                    "compression", layer.compression))
        ELSE Ok(with_data)

\* parsers/json/layer.py: _serialize_object_layer
_serialize_object_layer(layer) ==
    Ok(Put(Put(json_serialize_common(layer, "objectgroup"),
               "objects", [i \in 1..Len(layer.tiled_objects) |->
                              serialize_object(layer.tiled_objects[i])]),
           "draworder", layer.draw_order))

\* parsers/json/layer.py: _serialize_image_layer
_serialize_image_layer(layer) ==
    Ok(Put(json_serialize_common(layer, "imagelayer"), "image", layer.image))

RECURSIVE layer_serialize(_, _)
RECURSIVE SerializeChildren(_, _)
\* parsers/json/layer.py: _serialize_group_layer; the key layers is written
\* only when the group has children.
_serialize_group_layer(layer, zstd_there) ==
    LET raw_layers == SerializeChildren(layer.layers, zstd_there)
        common == json_serialize_common(layer, "group")
    IN  IF raw_layers.err # "none" THEN raw_layers
        ELSE IF raw_layers.val # <<>> THEN Ok(Put(common, "layers", raw_layers.val))
        ELSE Ok(common)

\* parsers/json/layer.py: serialize(layer)
layer_serialize(layer, zstd_there) ==
    IF layer.variant = "TileLayer" THEN _serialize_tile_layer(layer, zstd_there)
    ELSE IF layer.variant = "ImageLayer" THEN _serialize_image_layer(layer)
    ELSE IF layer.variant = "ObjectLayer" THEN _serialize_object_layer(layer)
    ELSE IF layer.variant = "LayerGroup" THEN _serialize_group_layer(layer, zstd_there)
    ELSE Raise("RuntimeError")

\* for child_layer in layer.layers: raw_layers.append(serialize(child_layer))
SerializeChildren(children, zstd_there) ==
    IF children = <<>> THEN Ok(<<>>)
    ELSE LET first == layer_serialize(children[1], zstd_there)
             others == SerializeChildren(Tail(children), zstd_there)
         IN  IF first.err # "none" THEN first
             ELSE IF others.err # "none" THEN others
             ELSE Ok(<<first.val>> \o others.val)

(***************************************************************************)
(* The layer scenarios: a layer record handed to parse, or a Layer handed  *)
(* to serialize and the record that comes out handed back to parse.        *)
(***************************************************************************)
MaxChildren == 2
MaxLayerObjects == 2

\* A two-column tile grid and its flat form.
SampleGrid == <<<<1, 2>>, <<7, 1>>>>
SampleFlat == <<1, 2, 7, 1>>

DrawOrders == {"topdown", "index", "manual"}

\* Object records without template: by kind a rectangle, a tile object, an
\* ellipse or a point.
LayerObject(id, kind) ==
    IF kind = "tile" THEN Record(id, {}, 2, 0)
    ELSE IF kind = "rectangle" THEN Record(id, {}, -1, 0)
    ELSE Record(id, {kind}, -1, 0)

ObjectKinds == {"rectangle", "tile", "ellipse", "point"}

\* Object lists, the objects numbered in source order.
ObjectLists ==
    {[i \in 1..Len(kinds) |-> LayerObject(i, kinds[i])] :
        kinds \in UNION {[1..n -> ObjectKinds] : n \in 0..MaxLayerObjects}}

RawObjectGroups ==
    {[type |-> "objectgroup", id |-> 2, objects |-> objects, draworder |-> order] :
        objects \in ObjectLists, order \in DrawOrders}

RawTileLayers ==
    {[type |-> "tilelayer", id |-> 1, width |-> 2, data |-> SampleFlat],
     [type |-> "tilelayer", width |-> 2,
      chunks |-> <<[data |-> SampleFlat, width |-> 2, height |-> 2, x |-> 0, y |-> 0]>>]}
    \cup {[type |-> "tilelayer", id |-> 1, width |-> 2,
           data |-> WireText(SampleFlat, comp),
           encoding |-> "base64", compression |-> comp] :
              comp \in {"none", "zlib", "zstd"}}

RawImageLayer == [type |-> "imagelayer", id |-> 3, image |-> "image.png"]

\* A record whose type tag names no layer type.
RawUnknownLayer == [type |-> "shapelayer", id |-> 4]

\* The records that stand as children of a group.
RawLeaves ==
    {[type |-> "tilelayer", id |-> 1, width |-> 2, data |-> SampleFlat],
     [type |-> "objectgroup", id |-> 2,
      objects |-> <<LayerObject(1, "tile"), LayerObject(2, "rectangle")>>,
      draworder |-> "topdown"],
     RawImageLayer,
     RawUnknownLayer}

RawGroup(children) == [type |-> "group", id |-> 5, layers |-> children]

\* Groups of leaves, and groups that also hold groups.
RawInnerGroups ==
    {RawGroup(children) :
        children \in UNION {[1..n -> RawLeaves] : n \in 0..MaxChildren}}

RawOuterGroups ==
    {RawGroup(children) :
        children \in UNION {[1..n -> {[type |-> "tilelayer", id |-> 1, width |-> 2,
                                       data |-> SampleFlat],
                                      RawGroup(<<>>),
                                      RawGroup(<<RawImageLayer>>),
                                      RawGroup(<<RawImageLayer, RawUnknownLayer>>)}] :
                                n \in 1..MaxChildren}}

\* Elements of a TMX document: layers, and elements that are no layers.
XmlElement(tag, name, children) == [tag |-> tag, name |-> name, children |-> children]

XmlData == XmlElement("data", "", <<>>)

XmlLeaves ==
    {XmlElement("layer", "t", <<XmlData>>),
     XmlElement("layer", "u", <<>>),
     XmlElement("objectgroup", "o", <<>>),
     XmlElement("imagelayer", "i", <<XmlElement("image", "", <<>>)>>),
     XmlElement("properties", "", <<>>)}

XmlGroup(children) == XmlElement("group", "g", children)

\* Group elements of leaves, and group elements that also hold groups.
XmlInnerGroups ==
    {XmlGroup(children) :
        children \in UNION {[1..n -> XmlLeaves] : n \in 0..MaxChildren}}

XmlOuterGroups ==
    {XmlGroup(children) :
        children \in UNION {[1..n -> {XmlElement("layer", "t", <<XmlData>>),
                                      XmlGroup(<<>>),
                                      XmlGroup(<<XmlElement("objectgroup", "o", <<>>)>>),
                                      XmlGroup(<<XmlElement("layer", "t", <<XmlData>>),
                                                 XmlElement("properties", "", <<>>)>>)}] :
                                n \in 1..MaxChildren}}

XmlGroups == XmlInnerGroups \cup XmlOuterGroups

RawLayerRecords ==
    RawObjectGroups \cup RawTileLayers \cup {RawImageLayer, RawUnknownLayer}
    \cup RawInnerGroups \cup RawOuterGroups

\* Layer values of every variant.
TileLayerValues ==
    {[variant |-> "TileLayer", id |-> id_, size |-> <<2>>, chunks |-> <<>>,
      data |-> <<SampleGrid>>, encoding |-> coding[1], compression |-> coding[2]] :
        id_ \in {<<>>, <<1>>},
        coding \in {<<"csv", "none">>, <<"base64", "none">>, <<"base64", "zlib">>,
                    <<"base64", "gzip">>, <<"base64", "zstd">>}}
    \cup {[variant |-> "TileLayer", id |-> <<1>>, size |-> <<2>>,
           chunks |-> <<<<[coordinates |-> <<0, 0>>, size |-> <<2, 2>>,
                           data |-> SampleGrid]>>>>,
           data |-> <<>>, encoding |-> "csv", compression |-> "none"]}

ObjectLayerValues ==
    {[variant |-> "ObjectLayer", id |-> <<2>>, size |-> <<>>,
      tiled_objects |-> [i \in 1..Len(objects) |-> Object(_get_parser(objects[i]), objects[i], <<>>)],
      draw_order |-> order] :
        objects \in ObjectLists, order \in DrawOrders}

ImageLayerValue == [variant |-> "ImageLayer", id |-> <<3>>, size |-> <<>>, image |-> "image.png"]

LayerGroupValue(children) ==
    [variant |-> "LayerGroup", id |-> <<5>>, size |-> <<>>, layers |-> children]

LeafValues ==
    {[variant |-> "TileLayer", id |-> <<1>>, size |-> <<2>>, chunks |-> <<>>,
      data |-> <<SampleGrid>>, encoding |-> "csv", compression |-> "none"],
     ImageLayerValue,
     LayerGroupValue(<<>>),
     LayerGroupValue(<<ImageLayerValue>>)}

LayerGroupValues ==
    {LayerGroupValue(children) :
        children \in UNION {[1..n -> LeafValues] : n \in 0..MaxChildren}}

LayerValues ==
    TileLayerValues \cup ObjectLayerValues \cup {ImageLayerValue} \cup LayerGroupValues

LayerStart ==
    /\ zstd_installed \in BOOLEAN
    /\ \/ lpc = "raw" /\ layer_record \in RawLayerRecords /\ layer_value = <<>>
       \/ lpc = "value" /\ layer_record = <<>> /\ layer_value \in LayerValues
       \/ lpc = "xml" /\ layer_record \in XmlGroups /\ layer_value = <<>>
    /\ serialized = None
    /\ parsed_layer = None

LayerIdle ==
    /\ lpc = "idle"
    /\ layer_record = <<>>
    /\ layer_value = <<>>
    /\ zstd_installed = FALSE
    /\ serialized = None
    /\ parsed_layer = None

\* parse(raw_layer) on a record.
ParseLayer ==
    /\ lpc = "raw"
    /\ parsed_layer' = layer_parse(layer_record, zstd_installed)
    /\ lpc' = "done"
    /\ UNCHANGED <<layer_record, layer_value, zstd_installed, serialized>>
    /\ UNCHANGED not_layer_vars

\* serialize(layer) on a Layer.
SerializeLayer ==
    /\ lpc = "value"
    /\ serialized' = layer_serialize(layer_value, zstd_installed)
    /\ lpc' = "serialized"
    /\ UNCHANGED <<layer_record, layer_value, zstd_installed, parsed_layer>>
    /\ UNCHANGED not_layer_vars

\* parse(raw_layer) on the record serialize returned.
ReparseLayer ==
    /\ lpc = "serialized"
    /\ serialized.err = "none"
    /\ parsed_layer' = layer_parse(serialized.val, zstd_installed)
    /\ lpc' = "done"
    /\ UNCHANGED <<layer_record, layer_value, zstd_installed, serialized>>
    /\ UNCHANGED not_layer_vars

\* layer.py: _cast_object_layer(raw_layer) on an object-group record.
CastObjectLayer ==
    /\ lpc = "raw"
    /\ layer_record.type = "objectgroup"
    /\ parsed_layer' = Ok(_cast_object_layer(layer_record, <<>>))
    /\ lpc' = "cast_done"
    /\ UNCHANGED <<layer_record, layer_value, zstd_installed, serialized>>
    /\ UNCHANGED not_layer_vars

\* xml_parser.py: _parse_layer_group(element) on a group element.
ParseLayerGroup ==
    /\ lpc = "xml"
    /\ parsed_layer' = _parse_layer_group(layer_record)
    /\ lpc' = "xml_done"
    /\ UNCHANGED <<layer_record, layer_value, zstd_installed, serialized>>
    /\ UNCHANGED not_layer_vars

(***************************************************************************)
(* Colour text.  A text is a sequence of one-character strings, a Color is *)
(* [red, green, blue, alpha].                                              *)
(***************************************************************************)
HexDigits ==
    [c \in {"0", "1", "2", "3", "4", "5", "6", "7", "8", "9",
            "a", "b", "c", "d", "e", "f", "A", "B", "C", "D", "E", "F"} |->
        CASE c = "0" -> 0 [] c = "1" -> 1 [] c = "2" -> 2 [] c = "3" -> 3
          [] c = "4" -> 4 [] c = "5" -> 5 [] c = "6" -> 6 [] c = "7" -> 7
          [] c = "8" -> 8 [] c = "9" -> 9
          [] c \in {"a", "A"} -> 10 [] c \in {"b", "B"} -> 11
          [] c \in {"c", "C"} -> 12 [] c \in {"d", "D"} -> 13
          [] c \in {"e", "E"} -> 14 [] c \in {"f", "F"} -> 15]

\* color[start:stop], which never raises: the slice ends with the text.
Slice(text, start, stop) ==
    SubSeq(text, start + 1, IF stop <= Len(text) THEN stop ELSE Len(text))

RECURSIVE HexValue(_, _)
\* The value of a text of hex digits, most significant digit first.
HexValue(text, acc) ==
    IF text = <<>> THEN acc
    ELSE HexValue(Tail(text), 16 * acc + HexDigits[text[1]])

\* int(text, 16): ValueError for an empty text or a character that is no
\* hex digit.
Int16(text) ==
    IF text = <<>> \/ \E i \in 1..Len(text) : text[i] \notin DOMAIN HexDigits
    THEN Raise("ValueError")
    ELSE Ok(HexValue(text, 0))

\* Color(red, green, blue, alpha) once every int() has returned.
MakeColor(red, green, blue, alpha) ==
    IF red.err # "none" THEN red
    ELSE IF green.err # "none" THEN green
    ELSE IF blue.err # "none" THEN blue
    ELSE IF alpha.err # "none" THEN alpha
    ELSE Ok([red |-> red.val, green |-> green.val, blue |-> blue.val,
             alpha |-> alpha.val])

\* if len(color) % 2: color = color[1:]
StripOdd(text) == IF Len(text) % 2 = 1 THEN Tail(text) ELSE text

\* parse_color reading the alpha pair of eight digits last (#RRGGBBAA).
ParseColorAlphaLast(text) ==
    LET body == StripOdd(text)
    IN  IF Len(body) = 6
        THEN MakeColor(Int16(Slice(body, 0, 2)), Int16(Slice(body, 2, 4)),
                       Int16(Slice(body, 4, 6)), Ok(255))
        ELSE IF Len(body) = 8
        THEN MakeColor(Int16(Slice(body, 0, 2)), Int16(Slice(body, 2, 4)),
                       Int16(Slice(body, 4, 6)), Int16(Slice(body, 6, 8)))
        ELSE Raise("ValueError")

\* util.py: parse_color
util_parse_color(text) ==
    LET body == StripOdd(text)
    IN  IF Len(body) = 6
        THEN MakeColor(Int16(Slice(body, 0, 2)), Int16(Slice(body, 2, 4)),
                       Int16(Slice(body, 4, 6)), Ok(255))
        ELSE IF Len(body) = 8
        THEN MakeColor(Int16(Slice(body, 2, 4)), Int16(Slice(body, 4, 6)),
                       Int16(Slice(body, 6, 8)), Int16(Slice(body, 0, 2)))
        ELSE Raise("ValueError")

\* utilities.py: parse_color; whatever is not six characters long is read as
\* alpha, red, green, blue, in the order the statements run.
utilities_parse_color(text) ==
    LET body == StripOdd(text)
    IN  IF Len(body) = 6
        THEN MakeColor(Int16(Slice(body, 0, 2)), Int16(Slice(body, 2, 4)),
                       Int16(Slice(body, 4, 6)), Ok(255))
        ELSE LET alpha == Int16(Slice(body, 0, 2))
             IN  IF alpha.err # "none" THEN alpha
                 ELSE MakeColor(Int16(Slice(body, 2, 4)), Int16(Slice(body, 4, 6)),
                                Int16(Slice(body, 6, 8)), alpha)

\* Two-digit channel texts, and texts of three or four channels with or
\* without the leading "#"; texts that are no colour.
ChannelTexts ==
    {<<"0", "0">>, <<"1", "1">>, <<"2", "2">>, <<"F", "F">>, <<"a", "0">>, <<"0", "9">>}

Hash == <<"#">>

ColorBodies ==
    {r \o g \o b : r \in ChannelTexts, g \in ChannelTexts, b \in ChannelTexts}
    \cup {a \o r \o g \o b : a \in ChannelTexts, r \in ChannelTexts,
                             g \in ChannelTexts, b \in ChannelTexts}

MalformedTexts ==
    {<<>>, Hash, <<"0", "0", "1", "1">>, Hash \o <<"0", "0", "1", "1">>,
     <<"g", "g", "0", "0", "1", "1">>, Hash \o <<"F", "F", "0", "0", "1", "1", "2">>,
     <<"F", "F", "0", "0", "1", "1", "2", "2", "3", "3">>}

ColorTexts ==
    ColorBodies \cup {Hash \o body : body \in ColorBodies} \cup MalformedTexts

ColorStart ==
    /\ kpc = "text"
    /\ color_text \in ColorTexts
    /\ color_module = "none"
    /\ parsed_color = None

ColorIdle ==
    /\ kpc = "idle"
    /\ color_text = <<>>
    /\ color_module = "none"
    /\ parsed_color = None

\* util.py: parse_color(color)
ParseColorUtil ==
    /\ kpc = "text"
    /\ parsed_color' = util_parse_color(color_text)
    /\ color_module' = "util"
    /\ kpc' = "done"
    /\ UNCHANGED color_text
    /\ UNCHANGED not_color_vars

\* utilities.py: parse_color(color)
ParseColorUtilities ==
    /\ kpc = "text"
    /\ parsed_color' = utilities_parse_color(color_text)
    /\ color_module' = "utilities"
    /\ kpc' = "done"
    /\ UNCHANGED color_text
    /\ UNCHANGED not_color_vars

(***************************************************************************)
(* External tilesets.  A reference is [source, ident]: the file it names   *)
(* and the identity of the object that carries it (an etree.Element, which *)
(* hashes and compares by identity).  A loaded tileset is the name of the  *)
(* file it was parsed from.                                                *)
(***************************************************************************)
MaxReferences == 3

\* functools.lru_cache(): maxsize is 128.
LruMaxsize == 128

\* The directory of the map files.
MapDir == "maps"

\* The position of a key in the cache, 0 when the key is not cached.
LruFind(entries, key) ==
    IF \E i \in 1..Len(entries) : entries[i].key = key
    THEN CHOOSE i \in 1..Len(entries) : entries[i].key = key
    ELSE 0

\* The cache after a hit at position i: the entry becomes the most recent.
LruTouch(entries, i) ==
    SubSeq(entries, 1, i - 1) \o SubSeq(entries, i + 1, Len(entries)) \o <<entries[i]>>

\* The cache after a miss: the new entry is added and, when the cache is
\* full, the least recent entry is dropped.
LruAdd(entries, key, value) ==
    LET grown == Append(entries, [key |-> key, value |-> value])
    IN  IF Len(grown) > LruMaxsize THEN Tail(grown) ELSE grown

\* xml_parser.py: _parse_external_tile_set under functools.lru_cache(); the
\* key is (parent_dir, tile_set_element).  The result is the tileset, the
\* cache, and the files opened.
_parse_external_tile_set(entries, parent_dir_, tile_set_element) ==
    LET key == <<parent_dir_, tile_set_element.ident>>
        hit == LruFind(entries, key)
    IN  IF hit # 0
        THEN [tileset |-> entries[hit].value, cache |-> LruTouch(entries, hit),
              opened |-> <<>>]
        ELSE [tileset |-> tile_set_element.source,
              cache |-> LruAdd(entries, key, tile_set_element.source),
              opened |-> <<tile_set_element.source>>]

\* tiled_map.py: parse_map, the branch of an external tileset: the file is
\* opened and cast; parsers/tmx/tiled_map.py does the same with etree.parse.
LoadExternal(raw_tileset) ==
    [tileset |-> raw_tileset.source, opened |-> <<raw_tileset.source>>]

\* References: two carried by distinct objects name a.tsx, one names b.tsx.
TilesetReferences ==
    {[source |-> "a.tsx", ident |-> 1], [source |-> "a.tsx", ident |-> 2],
     [source |-> "b.tsx", ident |-> 3]}

ExtStart ==
    /\ xpc = "load"
    /\ loader \in {"xml_parser", "tiled_map", "tmx"}
    /\ tileset_refs \in UNION {[1..n -> TilesetReferences] : n \in 1..MaxReferences}
    /\ ref_cursor = 1
    /\ lru = <<>>
    /\ file_opens = <<>>
    /\ loaded_sets = <<>>

ExtIdle ==
    /\ xpc = "idle"
    /\ loader = "none"
    /\ tileset_refs = <<>>
    /\ ref_cursor = 0
    /\ lru = <<>>
    /\ file_opens = <<>>
    /\ loaded_sets = <<>>

\* xml_parser.py: _get_tile_sets, one external tile set element.
LoadXml ==
    /\ xpc = "load"
    /\ loader = "xml_parser"
    /\ ref_cursor <= Len(tileset_refs)
    /\ LET call == _parse_external_tile_set(lru, MapDir, tileset_refs[ref_cursor])
       IN  /\ lru' = call.cache
           /\ file_opens' = file_opens \o call.opened
           /\ loaded_sets' = Append(loaded_sets, call.tileset)
    /\ ref_cursor' = ref_cursor + 1
    /\ UNCHANGED <<xpc, loader, tileset_refs>>
    /\ UNCHANGED not_ext_vars

\* tiled_map.py: parse_map, one external entry of raw_tiled_map["tilesets"].
LoadJson ==
    /\ xpc = "load"
    /\ loader = "tiled_map"
    /\ ref_cursor <= Len(tileset_refs)
    /\ LET call == LoadExternal(tileset_refs[ref_cursor])
       IN  /\ file_opens' = file_opens \o call.opened
           /\ loaded_sets' = Append(loaded_sets, call.tileset)
    /\ ref_cursor' = ref_cursor + 1
    /\ UNCHANGED <<xpc, loader, tileset_refs, lru>>
    /\ UNCHANGED not_ext_vars

\* parsers/tmx/tiled_map.py: parse, one external <tileset> element.
LoadTmx ==
    /\ xpc = "load"
    /\ loader = "tmx"
    /\ ref_cursor <= Len(tileset_refs)
    /\ LET call == LoadExternal(tileset_refs[ref_cursor])
       IN  /\ file_opens' = file_opens \o call.opened
           /\ loaded_sets' = Append(loaded_sets, call.tileset)
    /\ ref_cursor' = ref_cursor + 1
    /\ UNCHANGED <<xpc, loader, tileset_refs, lru>>
    /\ UNCHANGED not_ext_vars

(***************************************************************************)
(* CSV tile data.  A text is a sequence of one-character strings.          *)
(***************************************************************************)
MaxCsvLines == 2
MaxCsvTokens == 2

NewLine == "\n"

Digits ==
    [c \in {"0", "1", "2", "3", "4", "5", "6", "7", "8", "9"} |->
        CASE c = "0" -> 0 [] c = "1" -> 1 [] c = "2" -> 2 [] c = "3" -> 3
          [] c = "4" -> 4 [] c = "5" -> 5 [] c = "6" -> 6 [] c = "7" -> 7
          [] c = "8" -> 8 [] c = "9" -> 9]

RECURSIVE Split(_, _)
\* str.split(sep): the pieces of the text between the separators.
Split(text, sep) ==
    IF \A i \in 1..Len(text) : text[i] # sep THEN <<text>>
    ELSE LET first == CHOOSE i \in 1..Len(text) :
                          text[i] = sep /\ \A j \in 1..(i - 1) : text[j] # sep
         IN  <<SubSeq(text, 1, first - 1)>> \o Split(SubSeq(text, first + 1, Len(text)), sep)

NotEmpty(text) == text # <<>>

\* while "" in line_list: line_list.remove("")
RemoveEmpty(line_list) == SelectSeq(line_list, NotEmpty)

RECURSIVE DecimalValue(_, _)
DecimalValue(text, acc) ==
    IF text = <<>> THEN acc
    ELSE DecimalValue(Tail(text), 10 * acc + Digits[text[1]])

\* int(item): ValueError for a text that is no decimal number.
Int10(text) ==
    IF text = <<>> \/ \E i \in 1..Len(text) : text[i] \notin DOMAIN Digits
    THEN Raise("ValueError")
    ELSE Ok(DecimalValue(text, 0))

RECURSIVE IntsOf(_)
\* [int(item) for item in line_list]
IntsOf(line_list) ==
    IF line_list = <<>> THEN Ok(<<>>)
    ELSE LET first == Int10(line_list[1])
             others == IntsOf(Tail(line_list))
         IN  IF first.err # "none" THEN first
             ELSE IF others.err # "none" THEN others
             ELSE Ok(<<first.val>> \o others.val)

RECURSIVE CsvLoop(_)
\* The for loop of _decode_csv_data over the lines kept.
CsvLoop(lines) ==
    IF lines = <<>> THEN Ok(<<>>)
    ELSE LET line_list_int == IntsOf(RemoveEmpty(Split(lines[1], ",")))
             others == CsvLoop(Tail(lines))
         IN  IF line_list_int.err # "none" THEN line_list_int
             ELSE IF others.err # "none" THEN others
             ELSE Ok(<<line_list_int.val>> \o others.val)

\* xml_parser.py: _decode_csv_data; lines[1:-1] drops the first and the last
\* entry of the split, whatever they hold.
_decode_csv_data(data_text) ==
    LET lines == Split(data_text, NewLine)
    IN  CsvLoop(SubSeq(lines, 2, Len(lines) - 1))

\* The decimal text of a tile ID below 100.
DecimalText(id) ==
    IF id < 10 THEN <<CHOOSE c \in DOMAIN Digits : Digits[c] = id>>
    ELSE <<CHOOSE c \in DOMAIN Digits : Digits[c] = id \div 10,
           CHOOSE c \in DOMAIN Digits : Digits[c] = id % 10>>

RECURSIVE JoinLine(_)
\* The IDs of a row, separated by commas.
JoinLine(row) ==
    IF Len(row) = 1 THEN DecimalText(row[1])
    ELSE DecimalText(row[1]) \o <<",">> \o JoinLine(Tail(row))

RECURSIVE JoinLines(_, _)
\* The data lines, separated by newlines; with trailing_comma every line but
\* the last ends in a comma, as the editor writes them.
JoinLines(rows, trailing_comma) ==
    IF Len(rows) = 1 THEN JoinLine(rows[1])
    ELSE JoinLine(rows[1]) \o (IF trailing_comma THEN <<",">> ELSE <<>>) \o <<NewLine>>
         \o JoinLines(Tail(rows), trailing_comma)

\* The wire text of the rows, with or without the newline before the first
\* and after the last data line.
CsvText(rows, trailing_comma, leading, closing) ==
    (IF leading THEN <<NewLine>> ELSE <<>>) \o JoinLines(rows, trailing_comma)
    \o (IF closing THEN <<NewLine>> ELSE <<>>)

CsvRows ==
    UNION {[1..h -> UNION {[1..w -> {0, 48}] : w \in 1..MaxCsvTokens}] :
              h \in 1..MaxCsvLines}

CsvStart ==
    /\ vpc = "text"
    /\ csv_rows \in CsvRows
    /\ \E trailing_comma \in BOOLEAN, leading \in BOOLEAN, closing \in BOOLEAN :
           csv_text = CsvText(csv_rows, trailing_comma, leading, closing)
    /\ csv_grid = None

CsvIdle ==
    /\ vpc = "idle"
    /\ csv_rows = <<>>
    /\ csv_text = <<>>
    /\ csv_grid = None

\* xml_parser.py: _decode_csv_data(data_text)
DecodeCsv ==
    /\ vpc = "text"
    /\ csv_grid' = _decode_csv_data(csv_text)
    /\ vpc' = "done"
    /\ UNCHANGED <<csv_rows, csv_text>>
    /\ UNCHANGED not_csv_vars

(***************************************************************************)
(* Chunked tile layers.                                                    *)
(***************************************************************************)
MaxChunks == 2
MaxChunkSide == 2

\* xml_parser.py: _decode_data; compression "none" stands for None.
_decode_data(element_text, layer_width_, encoding_, comp) ==
    IF encoding_ \notin {"base64", "csv"} THEN Raise("ValueError")
    ELSE IF comp # "none" /\ encoding_ # "base64" THEN Raise("ValueError")
    ELSE IF comp \notin {"none", "gzip", "zlib"} THEN Raise("ValueError")
    ELSE IF encoding_ = "csv" THEN _decode_csv_data(element_text)
    ELSE _decode_base64_data(element_text, layer_width_, comp)

RECURSIVE XmlChunkLoop(_, _, _, _)
\* The loop of _parse_data over the <chunk> elements: every chunk is decoded
\* with the width of the layer.
XmlChunkLoop(chunk_elements, layer_width_, encoding_, comp) ==
    IF chunk_elements = <<>> THEN Ok(<<>>)
    ELSE LET chunk_element == chunk_elements[1]
             layer_data == _decode_data(chunk_element.text, layer_width_, encoding_, comp)
             others == XmlChunkLoop(Tail(chunk_elements), layer_width_, encoding_, comp)
         IN  IF layer_data.err # "none" THEN layer_data
             ELSE IF others.err # "none" THEN others
             ELSE Ok(<<[coordinates |-> <<chunk_element.x, chunk_element.y>>,
                        size |-> <<chunk_element.width, chunk_element.height>>,
                        data |-> layer_data.val]>> \o others.val)

\* xml_parser.py: _parse_data
_parse_data(element, layer_width_) ==
    IF element.chunks # <<>>
    THEN XmlChunkLoop(element.chunks, layer_width_, element.encoding, element.compression)
    ELSE _decode_data(element.text, layer_width_, element.encoding, element.compression)

\* The grid of a chunk of the scenario: its cells numbered row by row from
\* base + 1.
ChunkGrid(w, h, base) == [r \in 1..h |-> [c \in 1..w |-> base + (r - 1) * w + c]]

\* The layers of the scenario: chunks of one size, each with its origin and
\* its grid, in a layer whose width is the chunk width or another one.
ChunkedLayers ==
    UNION {{[width |-> lw, encoding |-> coding[1], compression |-> coding[2],
             chunks |-> [i \in 1..n |->
                            [x |-> xs[i] * w, y |-> 0, width |-> w, height |-> h,
                             grid |-> ChunkGrid(w, h, bases[i])]]] :
               lw \in 1..MaxChunkSide, w \in 1..MaxChunkSide, h \in 1..MaxChunkSide,
               coding \in {<<"csv", "none">>, <<"base64", "none">>,
                           <<"base64", "zlib">>, <<"base64", "gzip">>},
               xs \in [1..n -> {-1, 0}], bases \in [1..n -> {0, 10}]} :
           n \in 1..MaxChunks}

\* The text the editor writes into a <chunk> element.
ChunkText(chunk, encoding_, comp) ==
    IF encoding_ = "csv" THEN CsvText(chunk.grid, TRUE, TRUE, TRUE)
    ELSE WireText(_convert_tile_layer_data_to_raw(chunk.grid), comp)

\* The <data> element of the layer in a TMX file.
DataElement(layer) ==
    [encoding |-> layer.encoding, compression |-> layer.compression, text |-> <<>>,
     chunks |-> [i \in 1..Len(layer.chunks) |->
                    [x |-> layer.chunks[i].x, y |-> layer.chunks[i].y,
                     width |-> layer.chunks[i].width, height |-> layer.chunks[i].height,
                     text |-> ChunkText(layer.chunks[i], layer.encoding,
                                        layer.compression)]]]

\* The "chunks" of the layer's record in a TMJ file: an array of IDs for csv,
\* the encoded text otherwise.
RawChunks(layer) ==
    [i \in 1..Len(layer.chunks) |->
        [x |-> layer.chunks[i].x, y |-> layer.chunks[i].y,
         width |-> layer.chunks[i].width, height |-> layer.chunks[i].height,
         data |-> IF layer.encoding = "csv"
                  THEN _convert_tile_layer_data_to_raw(layer.chunks[i].grid)
                  ELSE WireText(_convert_tile_layer_data_to_raw(layer.chunks[i].grid),
                                layer.compression)]]

ChunkStart ==
    /\ hpc = "layer"
    /\ chunked \in ChunkedLayers
    /\ xml_chunks = None
    /\ json_chunks = None

ChunkIdle ==
    /\ hpc = "idle"
    /\ chunked = <<>>
    /\ xml_chunks = None
    /\ json_chunks = None

\* xml_parser.py: _parse_tile_layer, data = _parse_data(data_element, width)
XmlParseData ==
    /\ hpc = "layer"
    /\ xml_chunks' = _parse_data(DataElement(chunked), chunked.width)
    /\ hpc' = "xml_done"
    /\ UNCHANGED <<chunked, json_chunks>>
    /\ UNCHANGED not_chunk_vars

\* parsers/json/layer.py: _parse_tile_layer, the loop over raw_layer["chunks"]
JsonParseChunks ==
    /\ hpc = "layer"
    /\ json_chunks' = ParseChunks(RawChunks(chunked), chunked.encoding = "base64",
                                  chunked.compression, TRUE)
    /\ hpc' = "json_done"
    /\ UNCHANGED <<chunked, xml_chunks>>
    /\ UNCHANGED not_chunk_vars

(***************************************************************************)
(* Properties.  A Python value is a record of one field, named after its   *)
(* class; a float is held in tenths, a text as a sequence of characters.   *)
(***************************************************************************)
MaxProperties == 2

PyStr(text) == [str |-> text]
PyInt(n) == [int |-> n]
PyFloat(tenths) == [float |-> tenths]
PyBool(b) == [bool |-> b]
PyPath(text) == [Path |-> text]
PyColor(color) == [Color |-> color]

\* The class of a value and what it holds.
Kind(value) == CHOOSE class \in DOMAIN value : TRUE
Val(value) == value[Kind(value)]

\* isinstance(value, class): bool is a subclass of int.
IsInstance(value, class) ==
    Kind(value) = class \/ (class = "int" /\ Kind(value) = "bool")

\* float(text) for a text of digits with at most one digit after the point.
Float10(text) ==
    LET parts == Split(text, ".")
    IN  IF Len(parts) = 1
        THEN LET whole == Int10(parts[1])
             IN  IF whole.err # "none" THEN whole ELSE Ok(10 * whole.val)
        ELSE IF Len(parts) = 2 /\ Len(parts[2]) = 1
        THEN LET whole == Int10(parts[1])
                 tenth == Int10(parts[2])
             IN  IF whole.err # "none" THEN whole
                 ELSE IF tenth.err # "none" THEN tenth
                 ELSE Ok(10 * whole.val + tenth.val)
        ELSE Raise("ValueError")

RECURSIVE _parse_properties_element(_, _)
\* xml_parser.py: _parse_properties_element, the loop over the <property>
\* elements left, properties the dict built so far.
_parse_properties_element(property_elements, properties) ==
    IF property_elements = <<>> THEN Ok(properties)
    ELSE
        LET property_element == property_elements[1]
            name == property_element.name
            property_type == IF property_element.type = <<>> THEN "string"
                             ELSE property_element.type[1]
            value == property_element.value
            number == IF property_type = "int" THEN Int10(value) ELSE Float10(value)
            entry ==
                IF property_type \in {"int", "float"}
                THEN IF number.err # "none" THEN number
                     ELSE IF property_type = "int" THEN Ok(PyInt(number.val))
                     ELSE Ok(PyFloat(number.val))
                ELSE IF property_type = "color" THEN Ok(PyStr(value))
                ELSE IF property_type = "file" THEN Ok(PyPath(value))
                ELSE IF property_type = "bool"
                THEN Ok(PyBool(value = <<"t", "r", "u", "e">>))
                ELSE Ok(PyStr(value))
        IN  IF property_type \notin {"string", "int", "float", "bool", "color", "file"}
            THEN Raise("AssertionError")
            ELSE IF entry.err # "none" THEN entry
            ELSE _parse_properties_element(Tail(property_elements),
                                           DictSet(properties, name, entry.val))

RECURSIVE properties_parse(_, _)
\* parsers/json/properties.py: parse, the loop over the raw properties left,
\* final the dict built so far.
properties_parse(raw_properties, final) ==
    IF raw_properties = <<>> THEN Ok(final)
    ELSE
        LET raw_property == raw_properties[1]
            color == util_parse_color(Val(raw_property.value))
            value == IF raw_property.type = "file" THEN Ok(PyPath(Val(raw_property.value)))
                     ELSE IF raw_property.type = "color"
                     THEN IF color.err # "none" THEN color ELSE Ok(PyColor(color.val))
                     ELSE Ok(raw_property.value)
        IN  IF value.err # "none" THEN value
            ELSE properties_parse(Tail(raw_properties),
                                  DictSet(final, raw_property.name, value.val))

\* The type the isinstance chain of serialize chooses.
SerializedType(property) ==
    IF IsInstance(property, "Path") THEN "file"
    ELSE IF IsInstance(property, "Color") THEN "color"
    ELSE IF IsInstance(property, "str") THEN "string"
    ELSE IF IsInstance(property, "float") THEN "float"
    ELSE IF IsInstance(property, "int") THEN "int"
    ELSE IF IsInstance(property, "bool") THEN "bool"
    ELSE ""

\* parsers/json/properties.py: serialize; a path is written as its text, a
\* colour as the text serialize_color gives for it, kept here as the colour.
properties_serialize(properties) ==
    [i \in 1..Len(properties.order) |->
        LET name == properties.order[i]
            property == properties.at[name]
        IN  [name |-> name,
             type |-> SerializedType(property),
             value |-> IF IsInstance(property, "Path") THEN PyStr(Val(property))
                       ELSE IF IsInstance(property, "Color")
                       THEN [serialized_color |-> Val(property)]
                       ELSE property]]

\* The values of the scenario by type tag, as the typed value of a TMJ file.
TextHi == <<"h", "i">>
TextPng == <<"a", ".", "p", "n", "g">>
ColorLong == <<"#", "a", "0", "1", "1", "2", "2", "F", "F">>
ColorShort == <<"#", "1", "1", "2", "2", "F", "F">>

TaggedValues ==
    {<<"string", PyStr(TextHi)>>, <<"int", PyInt(5)>>, <<"int", PyInt(0)>>,
     <<"float", PyFloat(15)>>, <<"bool", PyBool(TRUE)>>, <<"bool", PyBool(FALSE)>>,
     <<"color", PyStr(ColorLong)>>, <<"color", PyStr(ColorShort)>>,
     <<"file", PyStr(TextPng)>>}

PropertyNames == {"a", "b"}

Triples ==
    {[name |-> name, type |-> tagged[1], value |-> tagged[2]] :
        name \in PropertyNames, tagged \in TaggedValues}

TripleLists == UNION {[1..n -> Triples] : n \in 0..MaxProperties}

\* The text of the value attribute of a <property> element.
AttributeText(value) ==
    IF Kind(value) = "int" THEN DecimalText(Val(value))
    ELSE IF Kind(value) = "float"
    THEN DecimalText(Val(value) \div 10) \o <<".">> \o DecimalText(Val(value) % 10)
    ELSE IF Kind(value) = "bool"
    THEN IF Val(value) THEN <<"t", "r", "u", "e">> ELSE <<"f", "a", "l", "s", "e">>
    ELSE Val(value)

\* The <property> elements of the triples in a TMX file; the editor writes
\* no type attribute for a string.
PropertyElements(list) ==
    [i \in 1..Len(list) |->
        [name |-> list[i].name,
         type |-> IF list[i].type = "string" THEN <<>> ELSE <<list[i].type>>,
         value |-> AttributeText(list[i].value)]]

\* The Properties mappings of the scenario: every kind of value.
PropertyValues ==
    {PyStr(TextHi), PyInt(5), PyFloat(15), PyBool(TRUE), PyBool(FALSE),
     PyPath(TextPng), PyColor([red |-> 17, green |-> 34, blue |-> 255, alpha |-> 160])}

RECURSIVE DictOf(_, _)
DictOf(pairs, d) ==
    IF pairs = <<>> THEN d
    ELSE DictOf(Tail(pairs), DictSet(d, pairs[1][1], pairs[1][2]))

PropertyMaps ==
    {DictOf(pairs, EmptyDict) :
        pairs \in UNION {[1..n -> PropertyNames \X PropertyValues] : n \in 0..MaxProperties}}

PropsStart ==
    /\ \/ ppc = "triples" /\ triples \in TripleLists /\ props = EmptyDict
       \/ ppc = "props" /\ triples = <<>> /\ props \in PropertyMaps
    /\ xml_props = None
    /\ json_props = None
    /\ raw_props = None

PropsIdle ==
    /\ ppc = "idle"
    /\ triples = <<>>
    /\ xml_props = None
    /\ json_props = None
    /\ props = EmptyDict
    /\ raw_props = None

\* xml_parser.py: _parse_properties_element(properties_element)
XmlParseProperties ==
    /\ ppc = "triples"
    /\ xml_props' = _parse_properties_element(PropertyElements(triples), EmptyDict)
    /\ ppc' = "xml_done"
    /\ UNCHANGED <<triples, json_props, props, raw_props>>
    /\ UNCHANGED not_props_vars

\* parsers/json/properties.py: parse(raw_properties)
JsonParseProperties ==
    /\ ppc = "triples"
    /\ json_props' = properties_parse(triples, EmptyDict)
    /\ ppc' = "json_done"
    /\ UNCHANGED <<triples, xml_props, props, raw_props>>
    /\ UNCHANGED not_props_vars

\* parsers/json/properties.py: serialize(properties)
SerializeProperties ==
    /\ ppc = "props"
    /\ raw_props' = Ok(properties_serialize(props))
    /\ ppc' = "serialized"
    /\ UNCHANGED <<triples, xml_props, json_props, props>>
    /\ UNCHANGED not_props_vars

(***************************************************************************)
(* Claims about the tile-grid codec.                                       *)
(***************************************************************************)
\* The compressions the running build supports: zstd only when it is installed.
Supported == {"none", "zlib", "gzip"} \cup (IF zstd THEN {"zstd"} ELSE {})

\* C1: for every rectangular grid with at least one cell and every supported
\* compression, decoding the text that _encode_tile_layer_data produced, with
\* the grid's own width as row width, returns exactly the original grid.
C1_RoundTrip ==
    (/\ cpc = "decoded"
     /\ compression \in Supported
     /\ layer_width = Len(grid[1]))
    => decoded = Ok(grid)

\* C2: folding a flat sequence of L tile IDs into rows of width W raises an
\* error whenever L mod W # 0, in the array fold and in both base64 decoders;
\* no grid with a short last row or with the partial row dropped is returned.
C2_PartialRowFails ==
    /\ (cpc = "folded" /\ Len(flat) % layer_width # 0)
       => folded.err # "none"
    /\ (cpc = "xml_decoded" /\ Len(flat) % layer_width # 0)
       => xml_decoded.err # "none"
    /\ (cpc = "json_decoded" /\ Len(flat) % layer_width # 0)
       => json_decoded.err # "none"

\* The decompressed byte stream of the scenario's wire text.
WireBytes == LittleEndian(flat)

\* The grid of H rows of layer_width entries read from the byte stream: the
\* entry at row r, column c is the unsigned little-endian value of the four
\* bytes at offset 4 * (r * W + c), rows and columns counted from 0.
GridOfBytes ==
    [r \in 1..(Len(WireBytes) \div (4 * layer_width)) |->
        [c \in 1..layer_width |->
            LET offset == 4 * ((r - 1) * layer_width + (c - 1))
            IN  WireBytes[offset + 1] + 256 * WireBytes[offset + 2]
                + 65536 * WireBytes[offset + 3] + 16777216 * WireBytes[offset + 4]]]

\* A byte stream of 4 * W * H bytes, W the row width and H >= 1.
FullGrid ==
    /\ Len(WireBytes) >= 4 * layer_width
    /\ Len(WireBytes) % (4 * layer_width) = 0

\* C21: for a byte stream of 4*W*H bytes and row width W, each base64 decoder
\* returns H rows of W entries, each entry the little-endian value of its four
\* bytes, so the XML decoder and the JSON decoder return the same grid; under
\* every compression the decoder undoes.
C21_Base64Grid ==
    /\ (cpc = "xml_decoded" /\ FullGrid /\ compression \in {"none", "zlib", "gzip"}) =>
           xml_decoded = Ok(GridOfBytes)
    /\ (cpc = "json_decoded" /\ FullGrid /\ compression \in Supported) =>
           json_decoded = Ok(GridOfBytes)

\* Two rows of two IDs, one of them with four non-zero bytes, zlib-compressed,
\* decoded by the XML decoder.
C21_Witness ==
    /\ cpc = "xml_decoded"
    /\ compression = "zlib"
    /\ layer_width = 2
    /\ flat = <<1, 16908588, 7, 1>>
    /\ WireBytes[5] = 44 /\ WireBytes[6] = 1 /\ WireBytes[7] = 2 /\ WireBytes[8] = 1
    /\ xml_decoded = Ok(<<<<1, 16908588>>, <<7, 1>>>>)

\* C22: for every grid of 32-bit tile IDs the encoder succeeds, and the byte
\* stream it wrote before compression holds four bytes per cell, each ID in
\* little-endian order; an ID above 255 is encoded.
C22_FourBytesPerCell ==
    (cpc = "encoded" /\ compression \in Supported) =>
        /\ encoded.err = "none"
        /\ (IF compression = "none" THEN Ok(b64decode(encoded.val))
            ELSE decompress(compression, b64decode(encoded.val)))
               = Ok(LittleEndian(_convert_tile_layer_data_to_raw(grid)))

\* The compression names of the tile data format.
LegalCompressions == {"none", "gzip", "zlib", "zstd"}

\* C13: decoding base64 tile data under a compression name outside
\* none/gzip/zlib/zstd fails with an error instead of returning a grid, in
\* the XML decoder and in the JSON decoder.
C13_OnlyLegalPairings ==
    /\ (cpc = "xml_decoded" /\ compression \notin LegalCompressions) =>
           xml_decoded.err # "none"
    /\ (cpc = "json_decoded" /\ compression \notin LegalCompressions) =>
           json_decoded.err # "none"

\* The error kinds the codec uses for input it cannot take: a compression the
\* XML decoder does not support, a tile ID the encoder cannot write.
InputErrorKinds ==
    {_decode_base64_data(<<>>, 1, "lzma").err,
     _encode_tile_layer_data(<<<<300>>>>, "none", TRUE).err}

ExampleRegistry ==
    [k \in FirstGids |->
        [has_tiles |-> TRUE,
         tiles |-> [i \in 0..(DenseCount(k) - 1) |-> TileOf(k, i)]]]

\* The Tile the worked example names for a gid: (firstgid, local id).
ExampleTile(g) ==
    IF g = 1 THEN TileOf(1, 0) ELSE IF g = 5 THEN TileOf(1, 4)
    ELSE IF g = 10 THEN TileOf(10, 0) ELSE IF g = 49 THEN TileOf(10, 39)
    ELSE IF g = 50 THEN TileOf(50, 0) ELSE TileOf(50, 19)

\* C3: for every registry and every gid that is >= some registered firstgid,
\* get_tile_by_gid returns the Tile at local id gid - F of the tileset whose
\* firstgid F is the greatest registered value <= gid, or None when that
\* tileset has no record there; with tilesets at 1, 10 and 50, the gids 1, 5,
\* 10, 49, 50, 69 give (ts1,0), (ts1,4), (ts2,0), (ts2,39), (ts3,0), (ts3,19).
C3_GidResolution ==
    (gpc = "done" /\ \E k \in DOMAIN tile_sets : k <= gid) =>
        /\ tile.err = "none"
        /\ \E F \in DOMAIN tile_sets :
              /\ F <= gid
              /\ \A k \in DOMAIN tile_sets : k <= gid => k <= F
              /\ IF tile_sets[F].has_tiles /\ (gid - F) \in DOMAIN tile_sets[F].tiles
                 THEN tile.val = <<tile_sets[F].tiles[gid - F]>>
                 ELSE tile.val = <<>>
        /\ (tile_sets = ExampleRegistry /\ gid \in {1, 5, 10, 49, 50, 69})
              => tile.val = <<ExampleTile(gid)>>

\* Witness of C3: gid 49 was resolved in the example registry to tile 39 of
\* the tileset registered at 10.
C3_Witness ==
    /\ gpc = "done"
    /\ tile_sets = ExampleRegistry
    /\ gid = 49
    /\ tile = Ok(<<TileOf(10, 39)>>)

\* C4: for every registry, the empty one included, and every gid >= 0,
\* gid 0 and gids below every firstgid included, get_tile_by_gid returns a
\* Tile or None and never raises.
C4_LookupNeverRaises == gpc = "done" => tile.err = "none"

(***************************************************************************)
(* Claims about the TiledObject parsers.                                   *)
(***************************************************************************)
\* The variant of the highest-priority discriminator a record carries:
\* ellipse > point > gid > polygon > polyline > text > Rectangle.
HighestPriority(record) ==
    IF Truthy(record, "ellipse") THEN "Ellipse"
    ELSE IF Truthy(record, "point") THEN "Point"
    ELSE IF Truthy(record, "gid") THEN "Tile"
    ELSE IF Truthy(record, "polygon") THEN "Polygon"
    ELSE IF Truthy(record, "polyline") THEN "Polyline"
    ELSE IF Truthy(record, "text") THEN "Text"
    ELSE "Rectangle"

\* C5: for every raw record, whatever combination of discriminators it
\* carries, the entry point of the object parser (parse, cast) returns the
\* variant of the highest-priority discriminator present, in the order
\* ellipse > point > gid > polygon > polyline > text > Rectangle; a record
\* with a point marker and a gid is a Point, one with an ellipse marker and a
\* gid an Ellipse.
C5_DispatchPriority ==
    (opc = "done" /\ adapter \in {"json", "cast"} /\ tiled_object.err = "none")
    => tiled_object.val[1].variant = HighestPriority(raw_object)

\* TRUE when the record names a template.
NamesTemplate ==
    IF adapter = "tmx" THEN HasAttrib(raw_object, "template")
    ELSE Truthy(raw_object, "template")

\* C10: parsing a record that names a template while parent_dir is absent
\* raises an error before any template file is read and returns no object,
\* in the JSON parser, the TMX parser and the legacy cast.
C10_TemplateNeedsParentDir ==
    (opc = "done" /\ NamesTemplate /\ ~parent_dir) =>
        /\ tiled_object.err = "RuntimeError"
        /\ tiled_object.val = <<>>
        /\ files_read = <<>>

\* Witness of C10: the TMX parser was called on a record naming a template,
\* without a parent directory, and raised.
C10_Witness ==
    /\ opc = "done"
    /\ adapter = "tmx"
    /\ HasAttrib(raw_object, "template")
    /\ ~parent_dir
    /\ tiled_object.err = "RuntimeError"

\* C11: for every record that names a template, the object a parser returns
\* (JSON parse, legacy cast or TMX parse) has the id of the host record, also
\* when the template's object has another id.
C11_HostIdWins ==
    (opc = "done" /\ NamesTemplate /\ tiled_object.err = "none") =>
        tiled_object.val[1].id = HostId

\* A TMX host element took over the template's object element, whose id differs.
C11_Witness ==
    /\ opc = "done"
    /\ adapter = "tmx"
    /\ HasAttrib(raw_object, "template")
    /\ tiled_object.err = "none"
    /\ template_file.object # <<>>
    /\ DOMAIN template_file.object[1].children # {}
    /\ template_file.object[1].attrib["id"] = TemplateId
    /\ TemplateId # HostId
    /\ tiled_object.val[1].id = HostId

\* The discriminators the parsed record carries: the markers set in a JSON
\* record or present as child elements of a TMX element, and a non-zero gid.
Discriminators ==
    IF adapter = "tmx"
    THEN (DOMAIN raw_object.children \cap Markers)
         \cup (IF HasAttrib(raw_object, "gid") THEN {"gid"} ELSE {})
    ELSE {key \in Markers \cup {"gid"} : Truthy(raw_object, key)}

VariantFor(discriminator) ==
    CASE discriminator = "ellipse" -> "Ellipse" [] discriminator = "point" -> "Point"
      [] discriminator = "gid" -> "Tile" [] discriminator = "polygon" -> "Polygon"
      [] discriminator = "polyline" -> "Polyline" [] discriminator = "text" -> "Text"

\* C26: an object that carries exactly one discriminator is parsed to the
\* variant of that discriminator by the TMX parser and by the JSON parser
\* alike; in TMX also when the discriminator is a child element without
\* sub-elements.
C26_SameVariant ==
    (opc = "done" /\ adapter \in {"json", "tmx"} /\ ~NamesTemplate
        /\ Cardinality(Discriminators) = 1) =>
        /\ tiled_object.err = "none"
        /\ \A discriminator \in Discriminators :
               tiled_object.val[1].variant = VariantFor(discriminator)

\* The object of the template file, as a record of its fields: <<>> when the
\* file has none.
TemplateFields ==
    IF template_file.object = <<>> THEN <<>>
    ELSE IF adapter = "tmx" THEN template_file.object[1].attrib
    ELSE template_file.object

\* C27: an object that names a template whose object defines a gid is parsed
\* as a Tile with the template's gid, in the JSON parser and in the TMX
\* parser, also when the template's <object> element has no child elements.
C27_TemplateMerged ==
    (opc = "done" /\ adapter \in {"json", "tmx"} /\ NamesTemplate /\ parent_dir
        /\ Truthy(TemplateFields, "gid")) =>
        /\ tiled_object.err = "none"
        /\ tiled_object.val[1].variant = "Tile"
        /\ tiled_object.val[1].gid = TemplateFields["gid"]

\* C29: a call of the JSON object parser (parse, cast) leaves the caller's
\* record with the keys and values it had before the call, also when the
\* record names a template.
C29_InputUntouched ==
    [][(opc = "start" /\ adapter \in {"json", "cast"} /\ opc' = "done")
           => raw_object' = raw_object]_vars

(***************************************************************************)
(* Claims about the JSON layer parser and serializer.                      *)
(***************************************************************************)
LayerTypes == {"tilelayer", "objectgroup", "imagelayer", "group"}

RECURSIVE HasUnknownType(_)
\* TRUE when the record, or a record nested in it at any depth, has a type
\* tag that names no layer type.
HasUnknownType(raw) ==
    \/ raw.type \notin LayerTypes
    \/ /\ raw.type = "group"
       /\ Has(raw, "layers")
       /\ \E i \in 1..Len(raw.layers) : HasUnknownType(raw.layers[i])

\* C12: parsing a layer record with an unknown type tag, at the top level or
\* nested at any depth inside groups, ends the top-level parse call with an
\* error and without any Layer.
C12_UnknownTypeFails ==
    (lpc = "done" /\ layer_value = <<>> /\ HasUnknownType(layer_record)) =>
        /\ parsed_layer.err # "none"
        /\ parsed_layer.val = <<>>

\* The unknown record sat two groups deep, behind a sibling that parses.
C12_Witness ==
    /\ lpc = "done"
    /\ layer_record.type = "group"
    /\ \E i \in 1..Len(layer_record.layers) :
           /\ layer_record.layers[i].type = "group"
           /\ Len(layer_record.layers[i].layers) = 2
           /\ layer_record.layers[i].layers[2].type \notin LayerTypes
    /\ parsed_layer.err = "RuntimeError"

\* C15: for every Layer of every variant, parsing the record that serialize
\* returns for it gives a Layer equal to the original.
C15_LayerRoundTrip ==
    /\ (lpc = "serialized" /\ (layer_value.variant = "TileLayer" =>
                                  (layer_value.compression = "zstd" => zstd_installed)))
           => serialized.err = "none"
    /\ (lpc = "done" /\ layer_value # <<>>) =>
           /\ parsed_layer.err = "none"
           /\ parsed_layer.val = layer_value

\* The Layer variant a record's type tag, or an element's tag, stands for.
VariantOf(tag) ==
    IF tag \in {"tilelayer", "layer"} THEN "TileLayer"
    ELSE IF tag = "objectgroup" THEN "ObjectLayer"
    ELSE IF tag = "imagelayer" THEN "ImageLayer"
    ELSE "LayerGroup"

RECURSIVE Mirrors(_, _)
\* TRUE when the Layer has the variant of the JSON record and, for a group,
\* as many children as the record, child i mirroring the record's child i.
Mirrors(raw, layer) ==
    /\ layer.variant = VariantOf(raw.type)
    /\ layer.id = <<raw.id>>
    /\ raw.type = "group" =>
          /\ Len(layer.layers) = Len(raw.layers)
          /\ \A i \in 1..Len(raw.layers) : Mirrors(raw.layers[i], layer.layers[i])

\* The child layers of an element: its child elements that are layers.
IsLayerElement(element) == element.tag \in {"layer", "objectgroup", "imagelayer", "group"}

ChildLayers(element) == SelectSeq(element.children, IsLayerElement)

RECURSIVE XmlMirrors(_, _)
\* The same for an element of a TMX document.
XmlMirrors(element, layer) ==
    /\ layer.variant = VariantOf(element.tag)
    /\ layer.name = element.name
    /\ element.tag = "group" =>
          /\ Len(layer.layers) = Len(ChildLayers(element))
          /\ \A i \in 1..Len(layer.layers) :
                 /\ i <= Len(ChildLayers(element))
                 /\ XmlMirrors(ChildLayers(element)[i], layer.layers[i])

RECURSIVE RawDepth(_)
\* Nesting depth of a JSON record: 0 for a layer that is no group.
RawDepth(raw) ==
    IF raw.type # "group" THEN 0
    ELSE 1 + PyMax({0} \cup {RawDepth(raw.layers[i]) : i \in 1..Len(raw.layers)})

RECURSIVE LayerDepth(_)
\* Nesting depth of a Layer.
LayerDepth(layer) ==
    IF layer.variant # "LayerGroup" THEN 0
    ELSE 1 + PyMax({0} \cup {LayerDepth(layer.layers[i]) : i \in 1..Len(layer.layers)})

\* C19: a parsed LayerGroup has as many children as its record, child i is
\* the parse of the record's child i (same order, same variant), and the
\* nesting depth is the record's; for JSON records and for TMX elements.
C19_TreePreserved ==
    /\ (lpc = "done" /\ layer_value = <<>> /\ layer_record.type = "group"
            /\ parsed_layer.err = "none") =>
           /\ Mirrors(layer_record, parsed_layer.val)
           /\ LayerDepth(parsed_layer.val) = RawDepth(layer_record)
    /\ (lpc = "xml_done" /\ parsed_layer.err = "none") =>
           XmlMirrors(layer_record, parsed_layer.val)

\* C20: the tiled_objects of a parsed ObjectLayer are the parses of the
\* record's objects in source order, whatever the draw order, and the draw
\* order is copied to draw_order; in the JSON parser and in layer.py's cast.
C20_SourceOrder ==
    (lpc \in {"done", "cast_done"} /\ layer_value = <<>>
         /\ layer_record.type = "objectgroup" /\ parsed_layer.err = "none") =>
        /\ Len(parsed_layer.val.tiled_objects) = Len(layer_record.objects)
        /\ \A i \in 1..Len(layer_record.objects) :
               /\ parsed_layer.val.tiled_objects[i].id = layer_record.objects[i].id
               /\ parsed_layer.val.tiled_objects[i] =
                      IF lpc = "done"
                      THEN json_parse(layer_record.objects[i], FALSE, NoFile).out.val[1]
                      ELSE cast(layer_record.objects[i], FALSE, NoFile).out.val[1]
        /\ parsed_layer.val.draw_order = layer_record.draworder

\* Two objects of different kinds under draw order "index", parsed by the
\* JSON parser.
C20_Witness ==
    /\ lpc = "done"
    /\ layer_value = <<>>
    /\ layer_record.type = "objectgroup"
    /\ layer_record.draworder = "index"
    /\ Len(layer_record.objects) = 2
    /\ parsed_layer.err = "none"
    /\ parsed_layer.val.tiled_objects[1].variant = "Tile"
    /\ parsed_layer.val.tiled_objects[2].variant = "Ellipse"
    /\ parsed_layer.val.draw_order = "index"

(***************************************************************************)
(* Claims about colour text.                                               *)
(***************************************************************************)
\* The colour text without its leading "#".
Unhashed(text) == IF text # <<>> /\ text[1] = "#" THEN Tail(text) ELSE text

IsHex(text) == \A i \in 1..Len(text) : text[i] \in DOMAIN HexDigits

\* The value of the two hex digits that start at position k.
Channel(text, k) == 16 * HexDigits[text[k]] + HexDigits[text[k + 1]]

\* C16: a text of six hex digits, with or without "#", parses to
\* Color(red, green, blue, 255), and a text of eight hex digits, with or
\* without "#", is read alpha first and parses to Color(red, green, blue, alpha).
C16_ColorParsing ==
    (kpc = "done" /\ IsHex(Unhashed(color_text))) =>
        LET digits == Unhashed(color_text)
        IN  /\ Len(digits) = 6 =>
                  parsed_color = Ok([red |-> Channel(digits, 1), green |-> Channel(digits, 3),
                                     blue |-> Channel(digits, 5), alpha |-> 255])
            /\ Len(digits) = 8 =>
                  parsed_color = Ok([red |-> Channel(digits, 3), green |-> Channel(digits, 5),
                                     blue |-> Channel(digits, 7),
                                     alpha |-> Channel(digits, 1)])

\* "#FF001122" parsed by util.py to (0x00, 0x11, 0x22, 0xFF).
C16_Witness ==
    /\ kpc = "done"
    /\ color_module = "util"
    /\ color_text = <<"#", "F", "F", "0", "0", "1", "1", "2", "2">>
    /\ parsed_color = Ok([red |-> 0, green |-> 17, blue |-> 34, alpha |-> 255])

(***************************************************************************)
(* Claims about external tilesets.                                         *)
(***************************************************************************)
\* How often a file was opened.
Opens(source) == Cardinality({i \in 1..Len(file_opens) : file_opens[i] = source})

\* C17: references that resolve to the same external tileset path are read
\* and parsed once; the later references are served from the cache.
C17_ReadOnce ==
    \A i \in 1..Len(file_opens) : Opens(file_opens[i]) = 1

(***************************************************************************)
(* Claims about CSV tile data.                                             *)
(***************************************************************************)
\* C23: only empty entries are discarded at the start and the end of the line
\* list; every data line of the text yields one row of its integers in
\* order, so a text of H data lines decodes to H rows and no ID is lost.
C23_CsvRows ==
    vpc = "done" => csv_grid = Ok(csv_rows)

(***************************************************************************)
(* Claims about chunked tile layers.                                       *)
(***************************************************************************)
\* The Chunk records the layer stands for: one per chunk, in order, each
\* with its origin, its size and its grid of height rows of width entries.
ChunksOf(layer) ==
    [i \in 1..Len(layer.chunks) |->
        [coordinates |-> <<layer.chunks[i].x, layer.chunks[i].y>>,
         size |-> <<layer.chunks[i].width, layer.chunks[i].height>>,
         data |-> layer.chunks[i].grid]]

\* C24: a layer of n chunks parses to n Chunk records in record order, each
\* with its own origin and size and its grid folded with the chunk's own
\* width, in the XML chunk decoder as well as in the JSON one.
C24_ChunksKept ==
    /\ hpc = "xml_done" => xml_chunks = Ok(ChunksOf(chunked))
    /\ hpc = "json_done" => json_chunks = Ok(ChunksOf(chunked))

(***************************************************************************)
(* Claims about properties.                                                *)
(***************************************************************************)
\* The value a triple stands for: a path for 'file', the Color of the
\* alpha-first text for 'color', the value itself for the other tags.
TripleValue(triple) ==
    IF triple.type = "file" THEN PyPath(Val(triple.value))
    ELSE IF triple.type = "color"
    THEN LET body == Tail(Val(triple.value))
             argb == IF Len(body) = 8 THEN body ELSE <<"F", "F">> \o body
         IN  PyColor([red |-> HexValue(SubSeq(argb, 3, 4), 0),
                      green |-> HexValue(SubSeq(argb, 5, 6), 0),
                      blue |-> HexValue(SubSeq(argb, 7, 8), 0),
                      alpha |-> HexValue(SubSeq(argb, 1, 2), 0)])
    ELSE triple.value

\* The last triple of a name gives its value.
LastOf(list, name) ==
    list[CHOOSE i \in 1..Len(list) :
             list[i].name = name /\ \A j \in (i + 1)..Len(list) : list[j].name # name]

\* parsed is the mapping of the triples: one entry per distinct name, with
\* the value of its triple.
MappingOf(parsed, list) ==
    /\ parsed.err = "none"
    /\ Keys(parsed.val) = {list[i].name : i \in 1..Len(list)}
    /\ Len(parsed.val.order) = Cardinality(Keys(parsed.val))
    /\ \A name \in Keys(parsed.val) : parsed.val.at[name] = TripleValue(LastOf(list, name))

\* C25: the mapping parsed from a list of triples has one entry per distinct
\* name, a path for 'file', a Color for 'color' and the value itself for the
\* other tags, in the XML properties parser and in the JSON one alike.
C25_PropertyTyping ==
    /\ ppc = "xml_done" => MappingOf(xml_props, triples)
    /\ ppc = "json_done" => MappingOf(json_props, triples)

\* The type tag of a kind of value.
TagOf(value) ==
    CASE Kind(value) = "bool" -> "bool" [] Kind(value) = "int" -> "int"
      [] Kind(value) = "float" -> "float" [] Kind(value) = "str" -> "string"
      [] Kind(value) = "Color" -> "color" [] Kind(value) = "Path" -> "file"

\* C30: serialize emits one triple per entry of the mapping, in order, with
\* the type tag of the value's kind; a boolean is never tagged 'int'.
C30_SerializedTags ==
    ppc = "serialized" =>
        /\ raw_props.err = "none"
        /\ Len(raw_props.val) = Len(props.order)
        /\ \A i \in 1..Len(props.order) :
               /\ raw_props.val[i].name = props.order[i]
               /\ raw_props.val[i].type = TagOf(props.at[props.order[i]])

(***************************************************************************)
(* Claims about the template-injection pass of the map assembler.          *)
(***************************************************************************)
RECURSIVE AllObjects(_)
\* The tiled objects of a layer list at every depth, in document order.
AllObjects(layer_list) ==
    IF layer_list = <<>> THEN <<>>
    ELSE layer_list[1].tiled_objects \o AllObjects(layer_list[1].layers)
         \o AllObjects(Tail(layer_list))

\* The objects as the layer parser built them, and as the assembler holds them.
Before == AllObjects(parsed_layers)
After == AllObjects(layers)

\* The objects that came out of the object parser with a pending tileset.
Carriers == {k \in 1..Len(Before) :
                Before[k].variant = "Tile" /\ Before[k].new_tileset # <<>>}

\* The firstgids under which a tileset of the given name is registered.
RegisteredAs(name) == {f \in Keys(tilesets) : tilesets.at[f].name = name}

\* The gids of the tileset registered at firstgid f.
Range(d, f) == f..(f + d.at[f].tile_count - 1)

\* C6: when the assembler returns, for every tileset name that two or more
\* tile objects of the map bring along as pending tileset and that no
\* declared tileset has, the registry holds exactly one entry of that name,
\* and the gid of each of these objects lies in that entry's range.
C6_OneEntryPerName ==
    mpc = "done" =>
        \A name \in {Before[k].new_tileset[1].name : k \in Carriers} :
            LET holders == {k \in Carriers : Before[k].new_tileset[1].name = name}
                declared == \E i \in 1..Len(raw_map.tilesets) :
                                raw_map.tilesets[i].name = name
            IN  (Cardinality(holders) >= 2 /\ ~declared) =>
                    /\ Cardinality(RegisteredAs(name)) = 1
                    /\ \A k \in holders : \A f \in RegisteredAs(name) :
                           After[k].gid \in Range(tilesets, f)

\* C7: when the assembler returns, every tile object that came with a
\* pending tileset has gid = (its template-local gid) + F - 1, for F a
\* firstgid under which a tileset of the pending tileset's name is registered.
C7_GidRenumbering ==
    mpc = "done" =>
        \A k \in Carriers :
            \E f \in RegisteredAs(Before[k].new_tileset[1].name) :
                /\ tilesets.at[f].firstgid = f
                /\ After[k].gid = Before[k].gid + f - 1

\* The registry of the declared tilesets alone.
DeclaredRegistry == LoadTilesets(map_format, raw_map.tilesets, EmptyDict).val

\* No gid belongs to the ranges of two registered tilesets.
RangesDisjoint(d) ==
    \A f1 \in Keys(d) : \A f2 \in Keys(d) :
        f1 # f2 => Range(d, f1) \cap Range(d, f2) = {}

C9_NoPendingAtReturn ==
    mpc = "done" => \A k \in 1..Len(After) : After[k].new_tileset = <<>>

\* C18: the layers of the Map are the top-level layers of the map record,
\* once each and in record order; a layer inside a group is no entry of its
\* own.  For the JSON assembler and the TMX assembler.
C18_TopLevelLayers ==
    mpc \in {"inject", "done"} =>
        /\ Len(layers) = Len(raw_map.layers)
        /\ \A i \in 1..Len(layers) :
               i <= Len(raw_map.layers) => layers[i].type = VariantOf(raw_map.layers[i].type)

(***************************************************************************)
(* Specifications, one per component.                                      *)
(***************************************************************************)
CodecInit == CodecStart /\ GidIdle /\ ObjIdle /\ MapIdle /\ LayerIdle /\ ColorIdle /\ ExtIdle /\ CsvIdle /\ ChunkIdle /\ PropsIdle

CodecNext == Encode \/ Decode \/ ConvertRaw \/ XmlDecode \/ JsonDecode

SpecCodec == CodecInit /\ [][CodecNext]_vars

GidInit == GidStart /\ CodecIdle /\ ObjIdle /\ MapIdle /\ LayerIdle /\ ColorIdle /\ ExtIdle /\ CsvIdle /\ ChunkIdle /\ PropsIdle

GidNext == Lookup

SpecGid == GidInit /\ [][GidNext]_vars

ObjInit == ObjStart /\ CodecIdle /\ GidIdle /\ MapIdle /\ LayerIdle /\ ColorIdle /\ ExtIdle /\ CsvIdle /\ ChunkIdle /\ PropsIdle

ObjNext == ParseJson \/ Cast \/ ParseTmx

SpecObj == ObjInit /\ [][ObjNext]_vars

MapInit == MapStart /\ CodecIdle /\ GidIdle /\ ObjIdle /\ LayerIdle /\ ColorIdle /\ ExtIdle /\ CsvIdle /\ ChunkIdle /\ PropsIdle

MapNext == LoadDeclared \/ BuildMap \/ InjectStep \/ ReturnMap

SpecMap == MapInit /\ [][MapNext]_vars

LayerInit == LayerStart /\ CodecIdle /\ GidIdle /\ ObjIdle /\ MapIdle /\ ColorIdle /\ ExtIdle /\ CsvIdle /\ ChunkIdle /\ PropsIdle

LayerNext ==
    ParseLayer \/ SerializeLayer \/ ReparseLayer \/ ParseLayerGroup \/ CastObjectLayer

SpecLayer == LayerInit /\ [][LayerNext]_vars

ColorInit == ColorStart /\ CodecIdle /\ GidIdle /\ ObjIdle /\ MapIdle /\ LayerIdle /\ ExtIdle /\ CsvIdle /\ ChunkIdle /\ PropsIdle

ColorNext == ParseColorUtil \/ ParseColorUtilities

SpecColor == ColorInit /\ [][ColorNext]_vars

ExtInit == ExtStart /\ CodecIdle /\ GidIdle /\ ObjIdle /\ MapIdle /\ LayerIdle /\ ColorIdle /\ CsvIdle /\ ChunkIdle /\ PropsIdle

ExtNext == LoadXml \/ LoadJson \/ LoadTmx

SpecExt == ExtInit /\ [][ExtNext]_vars

CsvInit == CsvStart /\ CodecIdle /\ GidIdle /\ ObjIdle /\ MapIdle /\ LayerIdle /\ ColorIdle /\ ExtIdle /\ ChunkIdle /\ PropsIdle

CsvNext == DecodeCsv

SpecCsv == CsvInit /\ [][CsvNext]_vars

ChunkInit == ChunkStart /\ CodecIdle /\ GidIdle /\ ObjIdle /\ MapIdle /\ LayerIdle /\ ColorIdle /\ ExtIdle /\ CsvIdle /\ PropsIdle

ChunkNext == XmlParseData \/ JsonParseChunks

SpecChunk == ChunkInit /\ [][ChunkNext]_vars

PropsInit == PropsStart /\ CodecIdle /\ GidIdle /\ ObjIdle /\ MapIdle /\ LayerIdle /\ ColorIdle /\ ExtIdle /\ CsvIdle /\ ChunkIdle

PropsNext == XmlParseProperties \/ JsonParseProperties \/ SerializeProperties

SpecProps == PropsInit /\ [][PropsNext]_vars

====
